---- MODULE Spec2Model ----
(***************************************************************************)
(* Model of the aws-bia response pipeline: the stream reducer              *)
(* (StreamProcessor.ProcessStream), the response formatter                 *)
(* (ResponseFormatter) and the output-file materializer                    *)
(* (FileHelper.HandleFileOutput).                                          *)
(*                                                                         *)
(* Strings are sequences of tokens.  File names and paths are sequences of *)
(* one-character tokens, so that filepath.Base / Ext / Clean / Join are    *)
(* computed character by character as the Go library computes them (unix   *)
(* separators: the release builds are linux and darwin only).  Text        *)
(* payloads are sequences of opaque byte blocks.                           *)
(***************************************************************************)
EXTENDS Integers, Sequences, FiniteSets, TLC

\* ------------------------------------------------------------------------
\* Bounds
\* ------------------------------------------------------------------------
\* longest event stream the transport delivers
MaxEvents == 3
\* longest file list handed directly to HandleFileOutput
MaxFiles == 2
\* longest list of upload paths handed directly to PrepareInputFiles
MaxUploads == 2
\* longest event stream the transport delivers to a run of the invoke command
MaxRunEvents == 2

\* ------------------------------------------------------------------------
\* Generic sequence helpers
\* ------------------------------------------------------------------------
Range(s) == {s[i] : i \in 1..Len(s)}

RECURSIVE Flatten(_)
Flatten(ss) == IF ss = <<>> THEN <<>> ELSE Head(ss) \o Flatten(Tail(ss))

HasSuffix(s, suf) ==
    /\ Len(suf) <= Len(s)
    /\ SubSeq(s, Len(s) - Len(suf) + 1, Len(s)) = suf

\* strings.TrimSuffix
TrimSuffix(s, suf) ==
    IF HasSuffix(s, suf) THEN SubSeq(s, 1, Len(s) - Len(suf)) ELSE s

\* ------------------------------------------------------------------------
\* path/filepath (unix)
\* ------------------------------------------------------------------------
Sep == "/"
Dot == "."

\* index of the last separator of p, 0 when there is none
LastSep(p) ==
    LET I == {i \in 1..Len(p) : p[i] = Sep}
    IN  IF I = {} THEN 0 ELSE CHOOSE i \in I : \A j \in I : j <= i

RECURSIVE StripTrailingSeps(_)
StripTrailingSeps(p) ==
    IF Len(p) > 0 /\ p[Len(p)] = Sep
    THEN StripTrailingSeps(SubSeq(p, 1, Len(p) - 1))
    ELSE p

\* filepath.Base: last element of the path; "." for the empty path, "/" for
\* a path made of separators only
Base(path) ==
    IF path = <<>> THEN <<Dot>>
    ELSE LET p == StripTrailingSeps(path)
             q == SubSeq(p, LastSep(p) + 1, Len(p))
         IN  IF q = <<>> THEN <<Sep>> ELSE q

\* filepath.Ext: the suffix starting at the final dot of the last element
Ext(path) ==
    LET lo == LastSep(path)
        I  == {i \in (lo + 1)..Len(path) : path[i] = Dot}
    IN  IF I = {} THEN <<>>
        ELSE LET k == CHOOSE i \in I : \A j \in I : j <= i
             IN  SubSeq(path, k, Len(path))

\* the elements of p between separators (empty elements included)
RECURSIVE Split(_)
Split(p) ==
    LET I == {i \in 1..Len(p) : p[i] = Sep}
    IN  IF I = {} THEN <<p>>
        ELSE LET k == CHOOSE i \in I : \A j \in I : i <= j
             IN  <<SubSeq(p, 1, k - 1)>> \o Split(SubSeq(p, k + 1, Len(p)))

RECURSIVE JoinSegs(_)
JoinSegs(segs) ==
    IF segs = <<>> THEN <<>>
    ELSE IF Len(segs) = 1 THEN segs[1]
    ELSE segs[1] \o <<Sep>> \o JoinSegs(Tail(segs))

DotDot == <<Dot, Dot>>

\* the element stack of filepath.Clean after the elements segs
RECURSIVE CleanSegs(_, _, _)
CleanSegs(segs, rooted, stack) ==
    IF segs = <<>> THEN stack
    ELSE LET s == Head(segs)
             next ==
                 IF s = <<>> \/ s = <<Dot>> THEN stack
                 ELSE IF s = DotDot
                      THEN IF stack # <<>> /\ stack[Len(stack)] # DotDot
                           THEN SubSeq(stack, 1, Len(stack) - 1)
                           ELSE IF rooted THEN stack
                           ELSE Append(stack, s)
                      ELSE Append(stack, s)
         IN  CleanSegs(Tail(segs), rooted, next)

\* filepath.Clean
Clean(path) ==
    IF path = <<>> THEN <<Dot>>
    ELSE LET rooted == path[1] = Sep
             body   == JoinSegs(CleanSegs(Split(path), rooted, <<>>))
         IN  IF rooted THEN <<Sep>> \o body
             ELSE IF body = <<>> THEN <<Dot>> ELSE body

\* filepath.Join of two elements: empty elements are ignored, the result is
\* cleaned
Join(a, b) ==
    IF a = <<>> /\ b = <<>> THEN <<>>
    ELSE IF a = <<>> THEN Clean(b)
    ELSE IF b = <<>> THEN Clean(a)
    ELSE Clean(a \o <<Sep>> \o b)

\* ------------------------------------------------------------------------
\* MIME types
\* ------------------------------------------------------------------------
\* a MIME type is the sequence of its parts: the top-level type with its
\* slash, the subtype and, if it has a parameter, ";" and the parameter
Mime(top, sub) == <<top, sub>>
MimeWith(top, sub, param) == <<top, sub, ";", param>>

OctetStream == Mime("application/", "octet-stream")
TextPlainUTF8 == MimeWith("text/", "plain", " charset=utf-8")

\* the leading bytes of a file, in groups: signatures, text, white space and
\* bytes that cannot occur in text
BinaryByte == "NUL"
WhiteSpace == " "

RECURSIVE SkipWS(_)
SkipWS(content) ==
    IF content # <<>> /\ Head(content) = WhiteSpace THEN SkipWS(Tail(content))
    ELSE content

\* http.DetectContentType: the signatures are tried in order, data without
\* binary bytes is text/plain, anything else application/octet-stream
DetectContentType(content) ==
    LET body == SkipWS(content)
        first == IF body = <<>> THEN "" ELSE Head(body)
        raw == IF content = <<>> THEN "" ELSE Head(content)
    IN  IF first = "<html" THEN MimeWith("text/", "html", " charset=utf-8")
        ELSE IF first = "<?xml" THEN MimeWith("text/", "xml", " charset=utf-8")
        ELSE IF first = "%PDF-" THEN Mime("application/", "pdf")
        ELSE IF raw = "FEFF" THEN MimeWith("text/", "plain", " charset=utf-16be")
        ELSE IF raw = "PNG" THEN Mime("image/", "png")
        ELSE IF raw = "PK" THEN Mime("application/", "zip")
        ELSE IF \E i \in 1..Len(body) : body[i] = BinaryByte THEN OctetStream
        ELSE TextPlainUTF8

\* strings.ToLower on the letters of an extension
UpperCase == <<"C", "D", "F", "J", "L", "N", "O", "P", "S", "T", "V", "X">>
LowerCase == <<"c", "d", "f", "j", "l", "n", "o", "p", "s", "t", "v", "x">>
ToLowerChar(c) ==
    IF \E i \in 1..Len(UpperCase) : UpperCase[i] = c
    THEN LowerCase[CHOOSE i \in 1..Len(UpperCase) : UpperCase[i] = c]
    ELSE c
ToLower(str) == [i \in 1..Len(str) |-> ToLowerChar(str[i])]

\* faulty variant: the extension is compared as it is written
ExtAsWritten(filePath) == Ext(filePath)

\* ext := strings.ToLower(filepath.Ext(filePath))
LowerExt(filePath) == ToLower(Ext(filePath))

\* strings.HasPrefix(mimeType, "text/")
IsTextType(mimeType) == mimeType # <<>> /\ mimeType[1] = "text/"

\* strings.IndexByte(mimeType, ';'): 0 stands for -1
IndexOfSemicolon(mimeType) ==
    IF \E i \in 1..Len(mimeType) : mimeType[i] = ";"
    THEN CHOOSE i \in 1..Len(mimeType) :
             mimeType[i] = ";" /\ \A j \in 1..(i - 1) : mimeType[j] # ";"
    ELSE 0

Office(kind) == Mime("application/", "vnd.openxmlformats-officedocument." \o kind)

\* DetectMimeType(filePath, content)
DetectMimeType(filePath, content) ==
    LET mimeType == DetectContentType(content)
        ext == LowerExt(filePath)
        idx == IndexOfSemicolon(mimeType)
    IN  IF mimeType = OctetStream
        THEN CASE ext = <<".", "c", "s", "v">> -> Mime("text/", "csv")
               [] ext = <<".", "j", "s", "o", "n">> -> Mime("application/", "json")
               [] ext = <<".", "t", "x", "t">> -> Mime("text/", "plain")
               [] ext = <<".", "p", "d", "f">> -> Mime("application/", "pdf")
               [] ext \in {<<".", "x", "l", "s", "x">>, <<".", "x", "l", "s">>} ->
                      Office("spreadsheetml.sheet")
               [] ext \in {<<".", "d", "o", "c", "x">>, <<".", "d", "o", "c">>} ->
                      Office("wordprocessingml.document")
               [] ext \in {<<".", "p", "p", "t", "x">>, <<".", "p", "p", "t">>} ->
                      Office("presentationml.presentation")
               [] OTHER -> mimeType
        ELSE IF IsTextType(mimeType) /\ idx # 0
        THEN SubSeq(mimeType, 1, idx - 1)
        ELSE mimeType

\* fmt's %d for a non-negative integer
Digits == <<"0", "1", "2", "3", "4", "5", "6", "7", "8", "9">>

RECURSIVE Itoa(_)
Itoa(n) ==
    IF n < 10 THEN <<Digits[n + 1]>>
    ELSE Itoa(n \div 10) \o <<Digits[(n % 10) + 1]>>

\* fmt.Sprintf("%s_%d%s", base, n, ext)
IndexedName(base, n, ext) == base \o <<"_">> \o Itoa(n) \o ext


\* ------------------------------------------------------------------------
\* Data of the Bedrock agent runtime SDK (types.*)
\* ------------------------------------------------------------------------
\* a Go pointer (*string): nil or a value
Nil == [nil |-> TRUE, s |-> <<>>]
Ptr(x) == [nil |-> FALSE, s |-> x]

\* types.OutputFile
OutputFile(name, type, bytes) == [Name |-> name, Type |-> type, Bytes |-> bytes]

\* types.RetrievedReference / types.Citation
Reference(loc, content) == [Location |-> loc, Content |-> content]
Citation(text, refs) == [Text |-> text, RetrievedReferences |-> refs]

CitA == Citation(Ptr(<<"quoted">>), <<Reference(Ptr(<<"S3">>), Ptr(<<"ref">>))>>)
CitB == Citation(Nil, <<>>)

\* types.Attribution (nil, or a list of citations)
NoAttribution == [nil |-> TRUE, Citations |-> <<>>]
Attribution(cs) == [nil |-> FALSE, Citations |-> cs]

\* the members of types.ResponseStream
Chunk(bytes, attr) == [type |-> "Chunk", Bytes |-> bytes, Attribution |-> attr]
Files(fs) == [type |-> "Files", Files |-> fs]
Trace == [type |-> "Trace"]
ReturnControl(id) == [type |-> "ReturnControl", InvocationId |-> id]
Unknown == [type |-> "Unknown"]

NameA == <<"a", ".", "t">>
NameUpA == <<".", ".", "/", "a", ".", "t">>

FileA == OutputFile(Ptr(NameA), Nil, <<"A">>)
FileB == OutputFile(Ptr(NameUpA), Ptr(<<"text/csv">>), <<"B">>)
FileNoName == OutputFile(Nil, Nil, <<"C">>)

\* the events the transport may deliver
ChunkEvents ==
    { Chunk(<<"Hello, ">>, NoAttribution),
      Chunk(<<"world!">>, NoAttribution),
      Chunk(<<"cited">>, Attribution(<<CitA>>)),
      Chunk(<<>>, Attribution(<<CitB, CitA>>)) }

FilesEvents == { Files(<<FileA>>), Files(<<FileB, FileNoName>>) }

ControlEvents == { ReturnControl(Ptr(<<"abc">>)) }

\* the terminal error of the transport (stream.Err()); <<>> is nil
NoError == <<>>
TransportErrors ==
    { <<"operation error Bedrock Agent Runtime", "ThrottlingException">>,
      <<"context canceled">>,
      <<"connection reset">> }

\* ------------------------------------------------------------------------
\* Errors: an error is its message, a sequence of tokens; nil is <<>>
\* ------------------------------------------------------------------------
\* fmt.Errorf(prefix + ": %w", err)
Wrap(prefix, err) == <<prefix>> \o err

\* strings.Contains(err.Error(), tok)
Contains(err, tok) == tok \in Range(err)

\* strings.Contains(err.Error(), text) for a text of several tokens
ContainsSeq(err, toks) ==
    \E i \in 1..Len(err) :
        /\ i + Len(toks) - 1 <= Len(err)
        /\ SubSeq(err, i, i + Len(toks) - 1) = toks


\* faulty variant: the category message replaces the error instead of
\* wrapping it
HandleAWSErrorOpaque(err) ==
    IF err = NoError THEN NoError ELSE <<"AWS Bedrock error">>

\* HandleAWSError: rewrite a service error into its category's message
HandleAWSError(err) ==
    IF err = NoError THEN NoError
    ELSE IF Contains(err, "operation error Bedrock Agent Runtime")
            /\ Contains(err, "InvalidAgentAliasId")
    THEN Wrap("agent alias ID not found or not accessible with your credentials", err)
    ELSE IF Contains(err, "operation error Bedrock Agent Runtime")
            /\ Contains(err, "InvalidAgentId")
    THEN Wrap("agent ID not found or not accessible with your credentials", err)
    ELSE IF Contains(err, "operation error Bedrock Agent Runtime")
            /\ Contains(err, "ThrottlingException")
    THEN Wrap("request was throttled - please reduce request rate and try again", err)
    ELSE IF Contains(err, "operation error Bedrock Agent Runtime")
            /\ Contains(err, "ValidationException")
    THEN Wrap("validation error - please check your input parameters", err)
    ELSE IF Contains(err, "operation error Bedrock Agent Runtime")
            /\ Contains(err, "AccessDeniedException")
    THEN Wrap("access denied - check your IAM permissions for Bedrock services", err)
    ELSE IF Contains(err, "operation error Bedrock Agent Runtime")
            /\ Contains(err, "ResourceNotFoundException")
    THEN Wrap("resource not found - verify your agent ID and alias ID are correct", err)
    ELSE IF Contains(err, "operation error Bedrock Agent Runtime")
            /\ (Contains(err, "context deadline exceeded") \/ Contains(err, "timeout"))
    THEN Wrap("operation timed out - try increasing the timeout value", err)
    ELSE IF Contains(err, "operation error Bedrock Agent Runtime")
            /\ Contains(err, "ValidationException") /\ Contains(err, "file")
    THEN Wrap("file validation error - check file sizes and formats", err)
    ELSE IF Contains(err, "dial tcp") /\ ContainsSeq(err, <<"i/o", "timeout">>)
    THEN Wrap("network connection timed out - check your internet connection", err)
    ELSE IF Contains(err, "context canceled")
    THEN Wrap("operation canceled by user", err)
    ELSE Wrap("AWS Bedrock error", err)

\* ------------------------------------------------------------------------
\* State
\* ------------------------------------------------------------------------
VARIABLES
    caller,            \* who drives the run: "formatter" (FormatAndWriteResponse),
                       \* "stream" (ProcessStream called directly),
                       \* "files" (HandleFileOutput called directly)
    pc,                \* position of the run
    opts,              \* AgentOptions: OutputFormat, FilesOutputDir, hasUploadFiles, SessionID
    WriteOutput,       \* StreamProcessor.WriteOutput
    output,            \* InvokeAgentOutput: SessionId, ContentType, MemoryId, hasStream
    consumed,          \* the events pulled from stream.Events() so far, in order
    textResponse,      \* ProcessStream: textResponse
    citations,         \* ProcessStream: citations
    outputFiles,       \* ProcessStream: outputFiles
    hasReturnControl,  \* ProcessStream: hasReturnControl
    streamErr,         \* the terminal error of the transport: stream.Err()
    streamRet,         \* the values ProcessStream returned
    out,               \* the writes received by the output writer, in order
    hfoFiles,          \* HandleFileOutput: files
    hfoI,              \* HandleFileOutput: loop index i (0-based)
    savedFiles,        \* HandleFileOutput: savedFiles
    hfoErr,            \* HandleFileOutput: returned error
    disk,              \* regular files: path -> bytes
    dirs,              \* directories
    written,           \* the os.WriteFile calls made, in order
    retErr,            \* the error the run returned
    run,               \* the command line, configuration file and revision of a run
    options,           \* runInvokeCommand: its parameter opts (a copy of the package's)
    pkgOpts,           \* the package-level variable opts the flags are parsed into
    ctx,               \* the run's context: "none", "live", "deadline", "canceled"
    client,            \* whether the service client was created
    invoked,           \* the number of InvokeAgent calls made
    invokeErr,         \* the error InvokeAgent returned
    request,           \* the InvokeAgentInput of the last InvokeAgent call
    exitCode,          \* the exit status of the process, -1 while it runs
    uploads,           \* the upload paths on the file system: exists, size
    upI,               \* PrepareInputFiles: index of the path being processed (0-based)
    totalSize,         \* PrepareInputFiles: totalSize
    inputFiles,        \* PrepareInputFiles: inputFiles
    fsLog,             \* PrepareInputFiles: the os.Stat and os.ReadFile calls made
    pifRet             \* the values PrepareInputFiles returned

vars == <<caller, pc, opts, WriteOutput, output, consumed, textResponse,
          citations, outputFiles, hasReturnControl, streamErr, streamRet, out,
          hfoFiles, hfoI, savedFiles, hfoErr, disk, dirs, written, retErr,
          run, options, pkgOpts, ctx, client, invoked, invokeErr, request,
          exitCode, uploads, upI, totalSize, inputFiles, fsLog, pifRet>>

streamVars == <<consumed, textResponse, citations, outputFiles, hasReturnControl,
                streamErr, streamRet>>
hfoVars == <<hfoFiles, hfoI, savedFiles, hfoErr, disk, dirs, written>>
runVars == <<caller, opts, WriteOutput, output>>
cmdVars == <<run, options, pkgOpts, ctx, client, invoked, invokeErr, request, exitCode>>
pifVars == <<uploads, upI, totalSize, inputFiles, fsLog, pifRet>>


\* ------------------------------------------------------------------------
\* The output writer and the file system
\* ------------------------------------------------------------------------
\* one block written to the output writer
W(kind, data) == [kind |-> kind, data |-> data]

EmptyDisk == [q \in {} |-> <<>>]

\* os.Stat(p) succeeds
Exists(d, ds, p) == p \in DOMAIN d \/ p \in ds

\* the file system after p holds bytes
WriteAt(d, p, bytes) == [q \in DOMAIN d \cup {p} |-> IF q = p THEN bytes ELSE d[q]]

\* the directories os.MkdirAll(p) needs: p and its ancestors
DirChain(p) ==
    LET c    == Clean(p)
        segs == Split(c)
    IN  IF c[1] = Sep
        THEN {<<Sep>> \o JoinSegs(SubSeq(segs, 2, k)) : k \in 1..Len(segs)}
        ELSE {JoinSegs(SubSeq(segs, 1, k)) : k \in 1..Len(segs)}

\* os.MkdirAll(p) succeeds: no regular file is in the way
MkdirAllOK(d, p) == DirChain(p) \cap DOMAIN d = {}

\* ------------------------------------------------------------------------
\* Initial states
\* ------------------------------------------------------------------------
OutDir == <<"o">>
Here == <<Dot>>

Formats == {"text", "json"}

NoOutput == [SessionId |-> Nil, ContentType |-> Nil, MemoryId |-> Nil, hasStream |-> TRUE]
NoRet == [text |-> <<>>, citations |-> <<>>, files |-> <<>>, handoff |-> FALSE, err |-> NoError]

\* the outputs InvokeAgent may return
InvokeOutput(sid, ctype, mem, stream) ==
    [SessionId |-> sid, ContentType |-> ctype, MemoryId |-> mem, hasStream |-> stream]

\* the configurations of a formatter run: the directory for generated
\* files, whether upload files were configured, and what InvokeAgent returned
RunConfig(dir, upload, o) == [dir |-> dir, upload |-> upload, output |-> o]

RunConfigs ==
    { RunConfig(<<>>, FALSE, InvokeOutput(Nil, Nil, Nil, TRUE)),
      RunConfig(OutDir, TRUE,
                InvokeOutput(Ptr(<<"sess">>), Ptr(<<"application/json">>), Ptr(<<"mem">>), TRUE)),
      RunConfig(OutDir, FALSE, InvokeOutput(Ptr(<<"sess">>), Nil, Nil, TRUE)),
      RunConfig(<<>>, TRUE, InvokeOutput(Nil, Ptr(<<"application/json">>), Ptr(<<"mem">>), TRUE)),
      RunConfig(OutDir, TRUE, InvokeOutput(Ptr(<<"sess">>), Nil, Ptr(<<"mem">>), FALSE)),
      RunConfig(<<>>, FALSE, InvokeOutput(Nil, Nil, Nil, FALSE)) }

\* the declared names handed directly to HandleFileOutput
NameSet ==
    { Ptr(NameA),
      Ptr(NameUpA),
      Ptr(<<"d", "/", "a", ".", "t">>),
      Ptr(<<"/", "a", ".", "t">>),
      Ptr(<<"a", "_", "2", ".", "t">>),
      Ptr(<<"a">>),
      Ptr(DotDot),
      Ptr(<<Dot>>),
      Ptr(<<>>),
      Ptr(<<Sep>>),
      Nil }

\* the i-th file of a directly supplied list: its bytes identify it
DirectFile(name, i) == OutputFile(name, Nil, <<Digits[i + 1]>>)

NameLists == UNION {[1..n -> NameSet] : n \in 0..MaxFiles}

\* the working directory, its parent and the root exist
BaseDirs == {<<Dot>>, DotDot, <<Sep>>}

\* prior contents of the output directory dir
OldBytes == <<"old">>
PriorDisks(dir) ==
    IF dir = <<>> THEN {EmptyDisk}
    ELSE { EmptyDisk,
           WriteAt(EmptyDisk, Join(dir, NameA), OldBytes),
           WriteAt(WriteAt(EmptyDisk, Join(dir, NameA), OldBytes),
                   Join(dir, <<"a", "_", "2", ".", "t">>), OldBytes) }
         \cup (IF Clean(dir) \in BaseDirs THEN {}
               ELSE {WriteAt(EmptyDisk, Clean(dir), OldBytes)})

InitCommon ==
    /\ consumed = <<>>
    /\ textResponse = <<>>
    /\ citations = <<>>
    /\ outputFiles = <<>>
    /\ hasReturnControl = FALSE
    /\ streamErr = NoError
    /\ streamRet = NoRet
    /\ out = <<>>
    /\ hfoI = 0
    /\ savedFiles = <<>>
    /\ hfoErr = NoError
    /\ written = <<>>
    /\ retErr = NoError

\* ------------------------------------------------------------------------
\* The invoke command: options, configuration file, validation
\* ------------------------------------------------------------------------
\* DefaultTimeout = 30 * time.Second (durations are counted in seconds)
DefaultTimeout == 30
\* MaxUploadFiles
MaxUploadFiles == 5

\* the context is done: its deadline elapsed or it was canceled
ContextDone(c) == c \in {"deadline", "canceled"}

\* the two revisions of the invoke command in the repository
Revisions == {"cmd/invoke.go", "part_003"}

\* the fields of AgentOptions as the flag definitions of init() default them;
\* strings are "" when empty, paths and the session id are <<>> when empty
DefaultOptions ==
    [ AgentID |-> "", AgentAliasID |-> "", InputText |-> "", ConfigFile |-> "",
      SessionID |-> <<>>, Region |-> "", Timeout |-> DefaultTimeout,
      OutputFormat |-> "text", OutputFile |-> <<>>, FilesOutputDir |-> <<>>,
      UploadFiles |-> <<>>, FileUseCase |-> "CODE_INTERPRETER",
      PromptFile |-> "", PromptName |-> "", PromptVars |-> <<>> ]

\* cobra's flag parsing: args maps each flag given on the command line (named
\* by the field it is bound to) to its value; the other fields keep their
\* defaults
ParseFlags(args) ==
    [k \in DOMAIN DefaultOptions |-> IF k \in DOMAIN args THEN args[k] ELSE DefaultOptions[k]]

\* a mapping without keys
NoKeys == [k \in {} |-> ""]

\* a configuration file: absent, unreadable (not YAML), or its keys
NoConfigFile == [state |-> "absent", keys |-> NoKeys]
BadConfigFile == [state |-> "unreadable", keys |-> NoKeys]
ConfigFile(keys) == [state |-> "ok", keys |-> keys]

\* LoadConfigForCommand: the viper instance (its keys) or an error.  An
\* explicitly named file must exist and parse; without --config the search of
\* the standard locations ignores every failure.
LoadConfigForCommand(configPath, file) ==
    IF configPath # ""
    THEN IF file.state = "absent"
         THEN [err |-> <<"specified config file not found">>, keys |-> NoKeys, used |-> FALSE]
         ELSE IF file.state = "unreadable"
         THEN [err |-> <<"failed to read config file">>, keys |-> NoKeys, used |-> FALSE]
         ELSE [err |-> NoError, keys |-> file.keys, used |-> TRUE]
    ELSE IF file.state = "ok"
         THEN [err |-> NoError, keys |-> file.keys, used |-> TRUE]
         ELSE [err |-> NoError, keys |-> NoKeys, used |-> FALSE]

\* v.InConfig(key) / v.IsSet(key)
InConfig(keys, k) == k \in DOMAIN keys

\* if v.InConfig(k) && options.<field> == "" { options.<field> = v.GetString(k) }
FromConfig(o, field, keys, k) ==
    IF InConfig(keys, k) /\ o[field] = "" THEN [o EXCEPT ![field] = keys[k]] ELSE o

\* the timeout key of part_003: taken when the option still equals the
\* default and the file's duration is positive
TimeoutFromConfig(o, keys) ==
    IF InConfig(keys, "timeout") /\ o.Timeout = DefaultTimeout /\ keys["timeout"] > 0
    THEN [o EXCEPT !.Timeout = keys["timeout"]]
    ELSE o

\* loadConfig of part_003: loadConfig(opts.ConfigFile, &opts) updates the
\* options of runInvokeCommand
loadConfigNew(configPath, file, local, pkg) ==
    LET v == LoadConfigForCommand(configPath, file)
    IN  IF v.err # NoError
        THEN [err |-> v.err, options |-> local, pkgOpts |-> pkg]
        ELSE [err |-> NoError,
              options |->
                  TimeoutFromConfig(
                      FromConfig(
                          FromConfig(
                              FromConfig(local, "AgentID", v.keys, "agent_id"),
                              "AgentAliasID", v.keys, "agent_alias_id"),
                          "Region", v.keys, "region"),
                      v.keys),
              pkgOpts |-> pkg]

\* loadConfig of cmd/invoke.go: loadConfig(opts.ConfigFile) updates the
\* package-level opts, not the parameter of runInvokeCommand that shadows it;
\* the timeout key is not read
loadConfigOld(configPath, file, local, pkg) ==
    IF configPath # "" /\ file.state = "absent"
    THEN [err |-> <<"specified config file not found">>, options |-> local, pkgOpts |-> pkg]
    ELSE IF file.state # "ok"
    THEN [err |-> IF configPath # "" THEN <<"failed to read config file">> ELSE NoError,
          options |-> local, pkgOpts |-> pkg]
    ELSE [err |-> NoError,
          options |-> local,
          pkgOpts |->
              FromConfig(
                  FromConfig(
                      FromConfig(pkg, "AgentID", file.keys, "agent_id"),
                      "AgentAliasID", file.keys, "agent_alias_id"),
                  "Region", file.keys, "region")]

loadConfig(rev, configPath, file, local, pkg) ==
    IF rev = "part_003"
    THEN loadConfigNew(configPath, file, local, pkg)
    ELSE loadConfigOld(configPath, file, local, pkg)

\* validateRequiredFields; cmd/invoke.go requires the input text even when a
\* prompt is named
validateRequiredFields(rev, o) ==
    IF o.AgentID = "" THEN <<"agent ID is required">>
    ELSE IF o.AgentAliasID = "" THEN <<"agent alias ID is required">>
    ELSE IF rev = "part_003"
    THEN IF o.InputText = "" /\ o.PromptName = "" /\ o.PromptFile = ""
         THEN <<"input is required (or use --prompt/--prompt-file)">>
         ELSE NoError
    ELSE IF o.InputText = "" THEN <<"input text is required">>
    ELSE NoError

\* faulty variant: a timeout of zero is let through
validateTimeoutNegativeOnly(o) ==
    IF o.Timeout < 0 THEN <<"timeout must be a positive duration">> ELSE NoError

\* if opts.Timeout <= 0
validateTimeout(o) ==
    IF o.Timeout <= 0 THEN <<"timeout must be a positive duration">> ELSE NoError

validateOutputFormat(o) ==
    IF o.OutputFormat \in {"text", "json"} THEN NoError
    ELSE <<"output format must be one of: text, json">>

\* validateFilesOutputDir: os.Stat succeeds on something that is no directory
validateFilesOutputDir(o, d) ==
    IF o.FilesOutputDir # <<>> /\ Clean(o.FilesOutputDir) \in DOMAIN d
    THEN <<"save-files path exists but is not a directory">>
    ELSE NoError

\* the index of the first upload path that does not exist, 0 if all exist
FirstMissing(ups) ==
    LET I == {i \in 1..Len(ups) : ~ups[i].exists}
    IN  IF I = {} THEN 0 ELSE CHOOSE i \in I : \A j \in I : i <= j

validateFileUseCase(o) ==
    IF o.FileUseCase \in {"CODE_INTERPRETER", "CHAT"} THEN NoError
    ELSE <<"file-use-case must be one of: CODE_INTERPRETER, CHAT">>

\* validateFileUploadOptions; part_003 checks the count before the paths,
\* cmd/invoke.go after them
validateFileUploadOptions(rev, o, ups) ==
    LET uploadCount == Len(o.UploadFiles)
        tooMany == <<"maximum 5 files can be uploaded">>
        missing == <<"upload file does not exist">>
    IN  IF uploadCount = 0 THEN NoError
        ELSE IF rev = "part_003"
        THEN IF uploadCount > MaxUploadFiles THEN tooMany
             ELSE IF FirstMissing(ups) # 0 THEN missing
             ELSE validateFileUseCase(o)
        ELSE IF FirstMissing(ups) # 0 THEN missing
             ELSE IF uploadCount > MaxUploadFiles THEN tooMany
             ELSE validateFileUseCase(o)

\* the first error of a list of checks, nil if none fails
RECURSIVE FirstError(_)
FirstError(errs) ==
    IF errs = <<>> THEN NoError
    ELSE IF Head(errs) # NoError THEN Head(errs)
    ELSE FirstError(Tail(errs))

\* validateOptions
validateOptions(rev, o, d, ups) ==
    FirstError(<< validateRequiredFields(rev, o),
                  validateTimeout(o),
                  validateOutputFormat(o),
                  validateFilesOutputDir(o, d),
                  validateFileUploadOptions(rev, o, ups) >>)

\* ------------------------------------------------------------------------
\* The runs of the invoke command
\* ------------------------------------------------------------------------
\* args with the flag k given as v / not given
With(args, k, v) == [x \in DOMAIN args \cup {k} |-> IF x = k THEN v ELSE args[x]]
Without(args, k) == [x \in DOMAIN args \ {k} |-> args[x]]

\* one upload path on the file system
UploadPath(exists, size) ==
    [exists |-> exists, size |-> size, name |-> <<"u">>,
     content |-> IF size = 0 THEN <<>> ELSE <<"txt">>]

\* an upload path with a name and content that is classified
TypedUpload(name, content) ==
    [exists |-> TRUE, size |-> 1, name |-> name, content |-> content]

\* a run: the revision that was built, the command line, the configuration
\* file, what is at the --save-files and --output-file paths beforehand and
\* what is at the --upload-files paths
Run(rev, args, file, prior, ups) ==
    [revision |-> rev, args |-> args, file |-> file, prior |-> prior, uploads |-> ups]

NoRun == Run("none", NoKeys, NoConfigFile, EmptyDisk, <<>>)

ValidArgs == [AgentID |-> "A", AgentAliasID |-> "L", InputText |-> "hi"]

AgentFile ==
    ConfigFile([agent_id |-> "fA", agent_alias_id |-> "fL", region |-> "fR", timeout |-> 60])

\* n upload paths given on the command line
UploadArgs(args, n) == With(args, "UploadFiles", [i \in 1..n |-> i])

Small == UploadPath(TRUE, 1)

\* runs whose options validateOptions rejects
RejectedRuns ==
    { Run(rev, args, NoConfigFile, EmptyDisk, <<>>) :
          rev \in Revisions,
          args \in { Without(ValidArgs, "AgentID"),
                     Without(ValidArgs, "AgentAliasID"),
                     Without(ValidArgs, "InputText"),
                     With(ValidArgs, "AgentID", ""),
                     With(ValidArgs, "InputText", ""),
                     With(ValidArgs, "Timeout", 0),
                     With(ValidArgs, "Timeout", -5),
                     With(ValidArgs, "OutputFormat", "xml"),
                     With(ValidArgs, "OutputFormat", "") } }
    \cup
    { Run(rev, With(ValidArgs, "FilesOutputDir", OutDir), NoConfigFile,
          WriteAt(EmptyDisk, OutDir, OldBytes), <<>>) : rev \in Revisions }
    \cup
    { Run(rev, UploadArgs(args, Len(ups)), NoConfigFile, EmptyDisk, ups) :
          rev \in Revisions,
          args \in {ValidArgs, With(ValidArgs, "FileUseCase", "OTHER")},
          ups \in { [i \in 1..(MaxUploadFiles + 1) |-> Small],
                    <<Small, UploadPath(FALSE, 0)>>,
                    [i \in 1..(MaxUploadFiles + 1) |->
                        IF i = 1 THEN UploadPath(FALSE, 0) ELSE Small] } }
    \cup
    { Run(rev, With(UploadArgs(ValidArgs, 1), "FileUseCase", "OTHER"), NoConfigFile,
          EmptyDisk, <<Small>>) : rev \in Revisions }

\* runs that take their settings from a configuration file
ConfiguredRuns ==
    { Run(rev, args, file, EmptyDisk, <<>>) :
          rev \in Revisions,
          args \in { [InputText |-> "hi", ConfigFile |-> "cfg.yaml"],
                     [InputText |-> "hi"],
                     With(With(With(ValidArgs, "ConfigFile", "cfg.yaml"),
                               "Region", "R"), "Timeout", DefaultTimeout) },
          file \in {AgentFile, NoConfigFile, BadConfigFile} }

\* runs with valid options: plain text, structured with saved files and an
\* output file that already exists, plain text with saved files
OutFile == <<"r">>

ValidRuns ==
    { Run("part_003", ValidArgs, NoConfigFile, EmptyDisk, <<>>),
      Run("cmd/invoke.go", ValidArgs, NoConfigFile, EmptyDisk, <<>>),
      Run("part_003",
          With(With(With(ValidArgs, "OutputFormat", "json"), "FilesOutputDir", OutDir),
               "OutputFile", OutFile),
          NoConfigFile, WriteAt(EmptyDisk, OutFile, OldBytes), <<>>),
      Run("part_003", With(ValidArgs, "FilesOutputDir", OutDir), NoConfigFile,
          EmptyDisk, <<>>) }

\* const maxSize = 10 * 1024 * 1024
maxSize == 10 * 1024 * 1024

\* runs that upload files: a total of exactly maxSize, of maxSize + 1, and a
\* small file; and a run over the limit whose output file already exists
UploadRuns ==
    { Run("part_003", UploadArgs(ValidArgs, Len(ups)), NoConfigFile, EmptyDisk, ups) :
          ups \in { <<UploadPath(TRUE, maxSize - 1), Small>>,
                    <<UploadPath(TRUE, maxSize), Small>>,
                    <<Small>> } }
    \cup
    { Run("part_003", With(UploadArgs(ValidArgs, 2), "OutputFile", OutFile), NoConfigFile,
          WriteAt(EmptyDisk, OutFile, OldBytes), <<UploadPath(TRUE, maxSize), Small>>) }

Runs == RejectedRuns \cup ConfiguredRuns \cup ValidRuns \cup UploadRuns

\* the options a ResponseFormatter and its FileHelper read
FormatterOptions(o) ==
    [OutputFormat |-> o.OutputFormat, FilesOutputDir |-> o.FilesOutputDir,
     hasUploadFiles |-> Len(o.UploadFiles) > 0, SessionID |-> o.SessionID]

NoRequest == [sent |-> FALSE]
NoFiles == [files |-> <<>>, err |-> NoError]

\* no invoke command is running
InitNoCommand ==
    /\ run = NoRun
    /\ options = DefaultOptions
    /\ pkgOpts = DefaultOptions
    /\ ctx = "none"
    /\ client = FALSE
    /\ invoked = 0
    /\ invokeErr = NoError
    /\ request = NoRequest
    /\ exitCode = -1

\* PrepareInputFiles has not been called
InitNoUpload ==
    /\ upI = 0
    /\ totalSize = 0
    /\ inputFiles = <<>>
    /\ fsLog = <<>>
    /\ pifRet = NoFiles

\* the process was started with the invoke command: cobra has parsed the
\* flags into the package-level opts and calls runInvokeCommand(ctx, opts)
InitRun ==
    /\ caller = "run"
    /\ pc = "run"
    /\ run \in Runs
    /\ pkgOpts = ParseFlags(run.args)
    /\ options = ParseFlags(run.args)
    /\ opts = FormatterOptions(DefaultOptions)
    /\ uploads = run.uploads
    /\ disk = run.prior
    /\ dirs = BaseDirs
    /\ ctx = "none"
    /\ client = FALSE
    /\ invoked = 0
    /\ invokeErr = NoError
    /\ request = NoRequest
    /\ exitCode = -1
    /\ WriteOutput = FALSE
    /\ output = NoOutput
    /\ hfoFiles = <<>>
    /\ InitNoUpload
    /\ InitCommon

\* the sizes of the upload files handed directly to PrepareInputFiles
Sizes == {0, 1, maxSize - 1, maxSize, maxSize + 1}

\* the names and the leading bytes of the upload files that are classified
UploadNames ==
    { <<"a">> \o e : e \in { <<>>,
                              <<".", "c", "s", "v">>, <<".", "C", "S", "V">>,
                              <<".", "j", "s", "o", "n">>, <<".", "t", "x", "t">>,
                              <<".", "p", "d", "f">>, <<".", "P", "d", "f">>,
                              <<".", "x", "l", "s", "x">>, <<".", "x", "l", "s">>,
                              <<".", "d", "o", "c", "x">>, <<".", "d", "o", "c">>,
                              <<".", "p", "p", "t", "x">>, <<".", "p", "p", "t">>,
                              <<".", "z">>, <<".", "c", "s", "v", ".", "z">>,
                              <<".", "c", "s", "v", Sep, "a">> } }

Contents ==
    { <<>>, <<"txt">>, <<BinaryByte>>, <<"txt", BinaryByte>>, <<"%PDF-", BinaryByte>>,
      <<"<html">>, <<WhiteSpace, "<?xml">>, <<"FEFF", "txt">>, <<"PNG", BinaryByte>>,
      <<"PK", BinaryByte>> }

TypedUploads == { TypedUpload(n, c) : n \in UploadNames, c \in Contents }

\* a few files given twice in one list
TwinUploads ==
    { TypedUpload(n, c) :
          n \in {<<"a", ".", "C", "S", "V">>, <<"a", ".", "z">>},
          c \in {<<"txt">>, <<BinaryByte>>} }

\* PrepareInputFiles called on a list of paths by an embedding caller
InitUpload ==
    /\ caller = "upload"
    /\ pc = "pif"
    /\ \/ \E n \in 0..MaxUploads :
              /\ uploads \in [1..n -> {UploadPath(TRUE, s) : s \in Sizes}]
              /\ options = [DefaultOptions EXCEPT !.UploadFiles = [i \in 1..n |-> i]]
       \/ /\ \E u \in TypedUploads : uploads = <<u>>
          /\ options = [DefaultOptions EXCEPT !.UploadFiles = <<1>>]
       \/ /\ uploads \in [1..2 -> TwinUploads]
          /\ options = [DefaultOptions EXCEPT !.UploadFiles = <<1, 2>>]
    /\ opts = FormatterOptions(options)
    /\ pkgOpts = DefaultOptions
    /\ run = NoRun
    /\ ctx = "none"
    /\ client = FALSE
    /\ invoked = 0
    /\ invokeErr = NoError
    /\ request = NoRequest
    /\ exitCode = -1
    /\ WriteOutput = FALSE
    /\ output = NoOutput
    /\ hfoFiles = <<>>
    /\ disk = EmptyDisk
    /\ dirs = BaseDirs
    /\ InitNoUpload
    /\ InitCommon

\* a run of FormatAndWriteResponse on the output of InvokeAgent
InitFormatter ==
    /\ caller = "formatter"
    /\ pc = "format"
    /\ \E format \in Formats, cfg \in RunConfigs :
           /\ opts = [OutputFormat |-> format, FilesOutputDir |-> cfg.dir,
                      hasUploadFiles |-> cfg.upload, SessionID |-> <<>>]
           /\ output = cfg.output
    /\ WriteOutput = FALSE
    /\ hfoFiles = <<>>
    /\ disk = EmptyDisk
    /\ dirs = BaseDirs
    /\ InitNoCommand
    /\ InitNoUpload
    /\ uploads = <<>>
    /\ InitCommon

\* ProcessStream called on a stream by an embedding caller
InitStream ==
    /\ caller = "stream"
    /\ pc = "stream"
    /\ opts \in [OutputFormat : Formats, FilesOutputDir : {<<>>},
                 hasUploadFiles : {FALSE}, SessionID : {<<>>}]
    /\ WriteOutput \in BOOLEAN
    /\ output = NoOutput
    /\ hfoFiles = <<>>
    /\ disk = EmptyDisk
    /\ dirs = BaseDirs
    /\ InitNoCommand
    /\ InitNoUpload
    /\ uploads = <<>>
    /\ InitCommon

\* HandleFileOutput called on a list of files by an embedding caller
InitFiles ==
    /\ caller = "files"
    /\ pc = "hfo"
    /\ opts \in [OutputFormat : {"text"}, FilesOutputDir : {<<>>, OutDir, Here},
                 hasUploadFiles : {FALSE}, SessionID : {<<>>}]
    /\ WriteOutput = FALSE
    /\ output = NoOutput
    /\ \E names \in NameLists :
           hfoFiles = [i \in 1..Len(names) |-> DirectFile(names[i], i)]
    /\ disk \in PriorDisks(opts.FilesOutputDir)
    /\ dirs = BaseDirs
    /\ InitNoCommand
    /\ InitNoUpload
    /\ uploads = <<>>
    /\ InitCommon



\* ------------------------------------------------------------------------
\* StreamProcessor.ProcessStream
\* ------------------------------------------------------------------------
\* faulty variant: every processor echoes, whatever its mode
EchoingAlways(wo, format) == TRUE

\* sp.WriteOutput && sp.Options.OutputFormat == "text"
Echoing(wo, format) == wo /\ format = "text"

\* faulty variant: the new chunk is put in front of the accumulated text
AppendTextPrepend(text, bytes) == IF Len(bytes) > 0 THEN bytes \o text ELSE text

\* textResponse.WriteString(chunk), only for a non-empty payload
AppendText(text, bytes) == IF Len(bytes) > 0 THEN text \o bytes ELSE text

\* faulty variant: the chunk is accumulated but never echoed
EchoChunkNever(o, echo, bytes) == o

\* fmt.Fprint(sp.Writer, chunk), only for a non-empty payload
EchoChunk(o, echo, bytes) ==
    IF Len(bytes) > 0 /\ echo THEN Append(o, W("chunk", bytes)) ELSE o

\* faulty variant: the citation list is replaced instead of appended to
AppendCitationsReplace(cits, attr) ==
    IF ~attr.nil /\ Len(attr.Citations) > 0 THEN attr.Citations ELSE cits

\* citations = append(citations, v.Value.Attribution.Citations...)
AppendCitations(cits, attr) ==
    IF ~attr.nil /\ Len(attr.Citations) > 0 THEN cits \o attr.Citations ELSE cits

\* faulty variant: a new batch is put in front of the earlier batches
AppendFilesPrepend(files, batch) == IF Len(batch) > 0 THEN batch \o files ELSE files

\* outputFiles = append(outputFiles, v.Value.Files...)
AppendFiles(files, batch) == IF Len(batch) > 0 THEN files \o batch ELSE files

\* faulty variant: the flag is left as it was
MarkReturnControlKeep(flag, ev) == flag

\* faulty variant: every return-control event flips the flag
MarkReturnControlToggle(flag, ev) == ~flag

\* hasReturnControl = true
MarkReturnControl(flag, ev) == TRUE

\* one line of the "[Generated n file(s)]" summary
FileLine(f) == [name |-> f.Name.s, type |-> f.Type, size |-> Len(f.Bytes)]

\* the index of the first file of batch without a name, 0 if all have one
FirstUnnamed(batch) ==
    LET I == {i \in 1..Len(batch) : batch[i].Name.nil}
    IN  IF I = {} THEN 0 ELSE CHOOSE i \in I : \A j \in I : i <= j

CanPull ==
    /\ pc = "stream"
    /\ Len(consumed) < (IF caller = "run" THEN MaxRunEvents ELSE MaxEvents)

OnChunk ==
    /\ CanPull
    /\ \E ev \in ChunkEvents :
        /\ consumed' = Append(consumed, ev)
        /\ textResponse' = AppendText(textResponse, ev.Bytes)
        /\ out' = EchoChunk(out, Echoing(WriteOutput, opts.OutputFormat), ev.Bytes)
        /\ citations' = AppendCitations(citations, ev.Attribution)
    /\ UNCHANGED <<pc, outputFiles, hasReturnControl, streamErr, streamRet, retErr>>
    /\ UNCHANGED <<runVars, hfoVars>>
    /\ UNCHANGED <<cmdVars, pifVars>>

\* the summary lines are written one file at a time: *file.Name of a file
\* without a name is a nil dereference and ends the process
OnFiles ==
    /\ CanPull
    /\ \E ev \in FilesEvents :
        /\ consumed' = Append(consumed, ev)
        /\ outputFiles' = AppendFiles(outputFiles, ev.Files)
        /\ IF Len(ev.Files) > 0 /\ Echoing(WriteOutput, opts.OutputFormat)
           THEN LET k == FirstUnnamed(ev.Files)
                    n == IF k = 0 THEN Len(ev.Files) ELSE k - 1
                IN  /\ out' = Append(out, W("generated",
                                  [count |-> Len(ev.Files),
                                   lines |-> [i \in 1..n |-> FileLine(ev.Files[i])]]))
                    /\ pc' = IF k = 0 THEN pc ELSE "panic"
           ELSE UNCHANGED <<out, pc>>
    /\ UNCHANGED <<textResponse, citations, hasReturnControl, streamErr, streamRet, retErr>>
    /\ UNCHANGED <<runVars, hfoVars>>
    /\ UNCHANGED <<cmdVars, pifVars>>

OnTrace ==
    /\ CanPull
    /\ consumed' = Append(consumed, Trace)
    /\ UNCHANGED <<pc, textResponse, citations, outputFiles, hasReturnControl,
                   streamErr, streamRet, out, retErr>>
    /\ UNCHANGED <<runVars, hfoVars>>
    /\ UNCHANGED <<cmdVars, pifVars>>

OnReturnControl ==
    /\ CanPull
    /\ \E ev \in ControlEvents :
        /\ consumed' = Append(consumed, ev)
        /\ hasReturnControl' = MarkReturnControl(hasReturnControl, ev)
        /\ out' = IF Echoing(WriteOutput, opts.OutputFormat)
                  THEN Append(out, W("control", ev.InvocationId))
                  ELSE out
    /\ UNCHANGED <<pc, textResponse, citations, outputFiles, streamErr, streamRet, retErr>>
    /\ UNCHANGED <<runVars, hfoVars>>
    /\ UNCHANGED <<cmdVars, pifVars>>

OnUnknown ==
    /\ CanPull
    /\ consumed' = Append(consumed, Unknown)
    /\ UNCHANGED <<pc, textResponse, citations, outputFiles, hasReturnControl,
                   streamErr, streamRet, out, retErr>>
    /\ UNCHANGED <<runVars, hfoVars>>
    /\ UNCHANGED <<cmdVars, pifVars>>

\* faulty variant: on a transport error only the error is returned
StreamResultDropPartial(text, cits, files, flag, e) ==
    IF e # NoError
    THEN [text |-> <<>>, citations |-> <<>>, files |-> <<>>, handoff |-> FALSE,
          err |-> HandleAWSError(Wrap("error during streaming", e))]
    ELSE [text |-> text, citations |-> cits, files |-> files, handoff |-> flag,
          err |-> NoError]

\* the values returned once stream.Events() is closed and stream.Err() is e
StreamResult(text, cits, files, flag, e) ==
    [text |-> text, citations |-> cits, files |-> files, handoff |-> flag,
     err |-> IF e # NoError
             THEN HandleAWSError(Wrap("error during streaming", e))
             ELSE NoError]

\* the event channel is closed: the loop ends and ProcessStream returns
StreamEnd ==
    /\ pc = "stream"
    /\ ~ContextDone(ctx)
    /\ \E e \in {NoError} \cup TransportErrors :
        /\ streamErr' = e
        /\ streamRet' = StreamResult(textResponse, citations, outputFiles,
                                     hasReturnControl, e)
    /\ pc' = "streamret"
    /\ UNCHANGED <<consumed, textResponse, citations, outputFiles,
                   hasReturnControl, out, retErr>>
    /\ UNCHANGED <<runVars, hfoVars>>
    /\ UNCHANGED <<cmdVars, pifVars>>

\* the embedding caller receives the result
StreamReturn ==
    /\ pc = "streamret"
    /\ caller = "stream"
    /\ retErr' = streamRet.err
    /\ pc' = "done"
    /\ UNCHANGED <<streamVars, out>>
    /\ UNCHANGED <<runVars, hfoVars>>
    /\ UNCHANGED <<cmdVars, pifVars>>


\* ------------------------------------------------------------------------
\* FileHelper.HandleFileOutput
\* ------------------------------------------------------------------------
\* faulty variant: the declared name is used as it is
SafeFileNameRaw(name) == name

\* safeFileName := filepath.Base(*file.Name)
SafeFileName(name) == Base(name)

\* faulty variant: the path is used whether or not something exists there
OutputPathNoRename(d, ds, dir, name, i) == Join(dir, SafeFileName(name))

\* the path the i-th file (0-based i) is written to: the safe name joined to
\* the output directory, with i+1 inserted before the extension when
\* something already exists at that path
OutputPath(d, ds, dir, name, i) ==
    LET safeFileName == SafeFileName(name)
        outputPath   == Join(dir, safeFileName)
    IN  IF Exists(d, ds, outputPath)
        THEN LET ext  == Ext(safeFileName)
                 base == TrimSuffix(safeFileName, ext)
             IN  Join(dir, IndexedName(base, i + 1, ext))
        ELSE outputPath

\* what os.WriteFile(p, ...) can do: "ok"; "open" (the file could not be
\* opened, nothing changes); "write" (opened and truncated, then the write
\* failed)
WriteOutcomes(ds, p) == IF p \in ds THEN {"open"} ELSE {"ok", "open", "write"}

\* faulty variant: a failed write returns no paths, like a failed MkdirAll
SavedOnFailureNone(saved) == <<>>

\* return savedFiles, fmt.Errorf("failed to save file ..."): the paths saved
\* before the failure are returned with the error
SavedOnFailure(saved) == saved

HandleFileOutputBegin ==
    /\ pc = "hfo"
    /\ IF Len(hfoFiles) = 0 \/ opts.FilesOutputDir = <<>>
       THEN /\ savedFiles' = <<>>
            /\ hfoErr' = NoError
            /\ pc' = "hfo_ret"
            /\ UNCHANGED dirs
       ELSE IF ~MkdirAllOK(disk, opts.FilesOutputDir)
       THEN /\ savedFiles' = <<>>
            /\ hfoErr' = <<"failed to create output directory", "not a directory">>
            /\ pc' = "hfo_ret"
            /\ UNCHANGED dirs
       ELSE /\ dirs' = dirs \cup DirChain(opts.FilesOutputDir)
            /\ savedFiles' = <<>>
            /\ hfoErr' = NoError
            /\ pc' = "hfo_loop"
    /\ hfoI' = 0
    /\ UNCHANGED <<hfoFiles, disk, written, out, retErr>>
    /\ UNCHANGED <<runVars, streamVars>>
    /\ UNCHANGED <<cmdVars, pifVars>>

\* one iteration of the loop over files
SaveFile ==
    /\ pc = "hfo_loop"
    /\ hfoI < Len(hfoFiles)
    /\ LET file == hfoFiles[hfoI + 1]
       IN  IF file.Name.nil
           THEN /\ hfoI' = hfoI + 1
                /\ UNCHANGED <<pc, savedFiles, hfoErr, disk, written>>
           ELSE LET outputPath == OutputPath(disk, dirs, opts.FilesOutputDir,
                                             file.Name.s, hfoI)
                    call(res) == [path |-> outputPath, index |-> hfoI + 1,
                                  existed |-> Exists(disk, dirs, outputPath),
                                  result |-> res]
                IN  \E res \in WriteOutcomes(dirs, outputPath) :
                        /\ written' = Append(written, call(res))
                        /\ IF res = "ok"
                           THEN /\ disk' = WriteAt(disk, outputPath, file.Bytes)
                                /\ savedFiles' = Append(savedFiles, outputPath)
                                /\ hfoI' = hfoI + 1
                                /\ UNCHANGED <<pc, hfoErr>>
                           ELSE /\ disk' = IF res = "write"
                                           THEN WriteAt(disk, outputPath, <<>>)
                                           ELSE disk
                                /\ hfoErr' = <<"failed to save file", res>>
                                /\ savedFiles' = SavedOnFailure(savedFiles)
                                /\ pc' = "hfo_ret"
                                /\ UNCHANGED hfoI
    /\ UNCHANGED <<hfoFiles, dirs, out, retErr>>
    /\ UNCHANGED <<runVars, streamVars>>
    /\ UNCHANGED <<cmdVars, pifVars>>

\* the loop is over: return savedFiles, nil
HandleFileOutputEnd ==
    /\ pc = "hfo_loop"
    /\ hfoI = Len(hfoFiles)
    /\ hfoErr' = NoError
    /\ pc' = "hfo_ret"
    /\ UNCHANGED <<hfoFiles, hfoI, savedFiles, disk, dirs, written, out, retErr>>
    /\ UNCHANGED <<runVars, streamVars>>
    /\ UNCHANGED <<cmdVars, pifVars>>

\* the embedding caller receives the saved paths and the error
FilesReturn ==
    /\ pc = "hfo_ret"
    /\ caller = "files"
    /\ retErr' = hfoErr
    /\ pc' = "done"
    /\ UNCHANGED <<out>>
    /\ UNCHANGED <<runVars, streamVars, hfoVars>>
    /\ UNCHANGED <<cmdVars, pifVars>>


\* ------------------------------------------------------------------------
\* ResponseFormatter
\* ------------------------------------------------------------------------
IsFormatter(format) == caller \in {"formatter", "run"} /\ opts.OutputFormat = format

\* writeSessionInfo: session id, content type, memory id, each if present
writeSessionInfo(o) ==
    (IF ~o.SessionId.nil THEN <<W("session", o.SessionId.s)>> ELSE <<>>)
    \o (IF ~o.ContentType.nil THEN <<W("contentType", o.ContentType.s)>> ELSE <<>>)
    \o (IF ~o.MemoryId.nil THEN <<W("memory", o.MemoryId.s)>> ELSE <<>>)

\* writeCitationsTextOutput: the numbered citation block
writeCitationsTextOutput(cits) ==
    IF Len(cits) = 0 THEN <<>>
    ELSE <<W("citations",
             [i \in 1..Len(cits) |->
                 [text |-> cits[i].Text,
                  refs |-> [j \in 1..Len(cits[i].RetrievedReferences) |->
                               cits[i].RetrievedReferences[j]]]])>>

\* the "[Saved n files to dir]" summary of writeTextResponse
SavedSummary(saved, err) ==
    IF err = NoError /\ Len(saved) > 0 THEN <<W("saved", saved)>> ELSE <<>>

\* writeTextResponse up to the call of ProcessStream
WriteTextResponseBegin ==
    /\ pc = "format"
    /\ IsFormatter("text")
    /\ LET head == <<W("header", <<>>)>>
                   \o (IF opts.hasUploadFiles THEN <<W("uploaded", <<>>)>> ELSE <<>>)
       IN  IF output.hasStream
           THEN /\ out' = out \o head
                /\ WriteOutput' = TRUE
                /\ pc' = "stream"
           ELSE /\ out' = out \o head \o <<W("nocontent", <<>>)>> \o writeSessionInfo(output)
                /\ pc' = "done"
                /\ UNCHANGED WriteOutput
    /\ UNCHANGED <<caller, opts, output, retErr>>
    /\ UNCHANGED <<streamVars, hfoVars>>
    /\ UNCHANGED <<cmdVars, pifVars>>

\* faulty variant: a stream error is passed over and the rest is written
AfterStreamErrorGoesOn == "text_tail"

\* faulty variant: the Materializer is called although the stream failed
AfterStreamErrorSaves == "hfo"

\* if err != nil { return err } after ProcessStream in writeTextResponse
AfterStreamError == "done"

\* writeTextResponse after ProcessStream returned
WriteTextResponseAfterStream ==
    /\ pc = "streamret"
    /\ IsFormatter("text")
    /\ IF streamRet.err # NoError
       THEN /\ retErr' = streamRet.err
            /\ pc' = AfterStreamError
            /\ UNCHANGED hfoFiles
       ELSE IF Len(streamRet.files) > 0 /\ opts.FilesOutputDir # <<>>
       THEN /\ hfoFiles' = streamRet.files
            /\ pc' = "hfo"
            /\ UNCHANGED retErr
       ELSE /\ pc' = "text_tail"
            /\ UNCHANGED <<hfoFiles, retErr>>
    /\ UNCHANGED <<hfoI, savedFiles, hfoErr, disk, dirs, written, out>>
    /\ UNCHANGED <<runVars, streamVars>>
    /\ UNCHANGED <<cmdVars, pifVars>>

\* HandleFileOutput returned to writeTextResponse
WriteTextResponseAfterSave ==
    /\ pc = "hfo_ret"
    /\ IsFormatter("text")
    /\ pc' = "text_tail"
    /\ UNCHANGED <<out, retErr>>
    /\ UNCHANGED <<runVars, streamVars, hfoVars>>
    /\ UNCHANGED <<cmdVars, pifVars>>

\* faulty variant: the citation block is printed before the session lines
TextTailCitationsFirst(saved, session, cits) == saved \o cits \o session

\* the order of the last three parts written by writeTextResponse
TextTail(saved, session, cits) == saved \o session \o cits

\* the rest of writeTextResponse: saved-files summary, session info,
\* citations
WriteTextResponseEnd ==
    /\ pc = "text_tail"
    /\ out' = out \o TextTail(SavedSummary(savedFiles, hfoErr),
                               writeSessionInfo(output),
                               writeCitationsTextOutput(streamRet.citations))
    /\ retErr' = NoError
    /\ pc' = "done"
    /\ UNCHANGED <<runVars, streamVars, hfoVars>>
    /\ UNCHANGED <<cmdVars, pifVars>>

\* JSON values: null or a value
Null == [null |-> TRUE, v |-> <<>>]
V(x) == [null |-> FALSE, v |-> x]
PtrValue(p) == IF p.nil THEN Null ELSE V(p.s)

\* response[k] = v
Put(m, k, v) == [x \in DOMAIN m \cup {k} |-> IF x = k THEN v ELSE m[x]]
EmptyMap == [x \in {} |-> Null]

\* refInfo of formatCitationsForJSON
RefInfo(ref) ==
    LET a == IF ~ref.Location.nil THEN Put(EmptyMap, "locationType", V(ref.Location.s))
             ELSE EmptyMap
    IN  IF ~ref.Content.nil THEN Put(a, "contentText", V(ref.Content.s)) ELSE a

NonEmptyMap(m) == DOMAIN m # {}

\* citationInfo of formatCitationsForJSON
CitationInfo(c) ==
    LET a == IF ~c.Text.nil THEN Put(EmptyMap, "text", V(c.Text.s)) ELSE EmptyMap
        infos == [j \in 1..Len(c.RetrievedReferences) |-> RefInfo(c.RetrievedReferences[j])]
        refs == SelectSeq(infos, NonEmptyMap)
    IN  IF Len(c.RetrievedReferences) > 0 /\ Len(refs) > 0
        THEN Put(a, "references", V(refs))
        ELSE a

\* formatCitationsForJSON: nil for no citations
formatCitationsForJSON(cits) ==
    IF Len(cits) = 0 THEN Null
    ELSE V(SelectSeq([i \in 1..Len(cits) |-> CitationInfo(cits[i])], NonEmptyMap))

\* fileInfo of addResponseMetadata
FileInfo(f) ==
    LET a == Put(Put(EmptyMap, "name", V(f.Name.s)), "size", V(Len(f.Bytes)))
    IN  IF ~f.Type.nil THEN Put(a, "type", V(f.Type.s)) ELSE a

\* addResponseMetadata: the content type, defaulting to text/plain
AddContentType(r, o) ==
    Put(r, "contentType",
        IF ~o.ContentType.nil THEN PtrValue(o.ContentType) ELSE V(<<"text/plain">>))

\* addResponseMetadata: the session id and whether it was generated
AddSession(r, o, sessionID) ==
    IF ~o.SessionId.nil
    THEN Put(Put(r, "sessionId", PtrValue(o.SessionId)),
             "generatedSessionId", V(sessionID = <<>>))
    ELSE r

\* faulty variant: the memory id is emitted even when the service sent none
AddMemoryIdAlways(r, o) == Put(r, "memoryId", PtrValue(o.MemoryId))

\* addResponseMetadata: the memory id
AddMemoryId(r, o) ==
    IF ~o.MemoryId.nil THEN Put(r, "memoryId", PtrValue(o.MemoryId)) ELSE r

\* addResponseMetadata: the uploaded files; uploaded tells whether
\* FormatUploadedFilesInfo could stat at least one upload file
AddUploadedFiles(r, hasUpload, uploaded) ==
    IF hasUpload /\ uploaded THEN Put(r, "uploadedFiles", V(<<"uploads">>)) ELSE r

\* addResponseMetadata: the citations
AddCitations(r, cits) ==
    IF Len(cits) > 0 THEN Put(r, "citations", formatCitationsForJSON(cits)) ELSE r

\* addResponseMetadata: the generated files, without their bytes
AddFiles(r, files) ==
    IF Len(files) > 0
    THEN Put(r, "files", V([i \in 1..Len(files) |-> FileInfo(files[i])]))
    ELSE r

\* addResponseMetadata: the control-return flag
AddReturnedControl(r, flag) ==
    IF flag THEN Put(r, "returnedControl", V(TRUE)) ELSE r

addResponseMetadata(response, o, cits, files, flag, uploaded) ==
    AddReturnedControl(
        AddFiles(
            AddCitations(
                AddUploadedFiles(
                    AddMemoryId(
                        AddSession(AddContentType(response, o), o, opts.SessionID),
                        o),
                    opts.hasUploadFiles, uploaded),
                cits),
            files),
        flag)

\* response["savedFiles"] = savedFiles
AddSavedFiles(r, saved) ==
    IF Len(saved) > 0 THEN Put(r, "savedFiles", V(saved)) ELSE r

\* the document of writeJSONResponse
JSONResponse(ret, o, saved, uploaded) ==
    LET base == Put(Put(Put(EmptyMap, "content", V(ret.text)),
                        "wasStreamingUsed", V("EnableStreaming")),
                    "timestamp", V("now"))
        meta == addResponseMetadata(base, o, ret.citations, ret.files, ret.handoff, uploaded)
    IN  AddSavedFiles(meta, saved)

\* writeJSONResponse up to the call of ProcessStream
WriteJSONResponseBegin ==
    /\ pc = "format"
    /\ IsFormatter("json")
    /\ IF output.hasStream
       THEN /\ WriteOutput' = FALSE
            /\ pc' = "stream"
       ELSE /\ pc' = "json_doc"
            /\ UNCHANGED WriteOutput
    /\ UNCHANGED <<caller, opts, output, out, retErr>>
    /\ UNCHANGED <<streamVars, hfoVars>>
    /\ UNCHANGED <<cmdVars, pifVars>>

\* writeJSONResponse after ProcessStream returned
WriteJSONResponseAfterStream ==
    /\ pc = "streamret"
    /\ IsFormatter("json")
    /\ IF streamRet.err # NoError
       THEN /\ retErr' = streamRet.err
            /\ pc' = "done"
            /\ UNCHANGED hfoFiles
       ELSE IF Len(streamRet.files) > 0 /\ opts.FilesOutputDir # <<>>
       THEN /\ hfoFiles' = streamRet.files
            /\ pc' = "hfo"
            /\ UNCHANGED retErr
       ELSE /\ pc' = "json_doc"
            /\ UNCHANGED <<hfoFiles, retErr>>
    /\ UNCHANGED <<hfoI, savedFiles, hfoErr, disk, dirs, written, out>>
    /\ UNCHANGED <<runVars, streamVars>>
    /\ UNCHANGED <<cmdVars, pifVars>>

\* HandleFileOutput returned to writeJSONResponse
WriteJSONResponseAfterSave ==
    /\ pc = "hfo_ret"
    /\ IsFormatter("json")
    /\ pc' = "json_doc"
    /\ UNCHANGED <<out, retErr>>
    /\ UNCHANGED <<runVars, streamVars, hfoVars>>
    /\ UNCHANGED <<cmdVars, pifVars>>

\* the rest of writeJSONResponse: build the document and write it; *file.Name
\* of a generated file without a name is a nil dereference and ends the
\* process before anything is written
WriteJSONResponseEnd ==
    /\ pc = "json_doc"
    /\ IF FirstUnnamed(streamRet.files) # 0
       THEN /\ pc' = "panic"
            /\ UNCHANGED <<out, retErr>>
       ELSE /\ \E uploaded \in BOOLEAN :
                  out' = Append(out, W("json", JSONResponse(streamRet, output, savedFiles, uploaded)))
            /\ retErr' = NoError
            /\ pc' = "done"
    /\ UNCHANGED <<runVars, streamVars, hfoVars>>
    /\ UNCHANGED <<cmdVars, pifVars>>

\* ------------------------------------------------------------------------
\* FileHelper.PrepareInputFiles
\* ------------------------------------------------------------------------
\* faulty variant: a total of exactly maxSize is refused too
OverLimitInclusive(total) == total >= maxSize

\* if totalSize > maxSize
OverLimit(total) == total > maxSize

\* faulty variant: the files read before the failure are returned with the error
FilesOnErrorPartial(files) == files

\* return nil, fmt.Errorf(...): the files read so far are dropped
FilesOnError(files) == <<>>

\* what os.Stat and os.ReadFile can do on an upload path
StatOutcomes(f) == IF f.exists THEN {"ok", "fail"} ELSE {"fail"}
ReadOutcomes == {"ok", "fail"}

FsCall(op, path, result) == [op |-> op, path |-> path, result |-> result]

\* the types.InputFile built from the i-th path
InputFile(path, f) ==
    [path |-> path, size |-> f.size, MediaType |-> DetectMimeType(f.name, f.content)]

PrepareInputFilesBegin ==
    /\ pc = "pif"
    /\ IF Len(options.UploadFiles) = 0
       THEN /\ pifRet' = NoFiles
            /\ pc' = "pif_ret"
       ELSE /\ pifRet' = pifRet
            /\ pc' = "pif_loop"
    /\ upI' = 0
    /\ totalSize' = 0
    /\ inputFiles' = <<>>
    /\ UNCHANGED <<uploads, fsLog, out, retErr>>
    /\ UNCHANGED <<runVars, streamVars, hfoVars, cmdVars>>

\* one iteration of the loop over the upload paths: stat, add to the total,
\* check the limit, read, append
PrepareInputFile ==
    /\ pc = "pif_loop"
    /\ upI < Len(options.UploadFiles)
    /\ LET path == options.UploadFiles[upI + 1]
           f    == uploads[path]
       IN  \E st \in StatOutcomes(f), rd \in ReadOutcomes :
             IF st = "fail"
             THEN /\ fsLog' = Append(fsLog, FsCall("stat", path, "fail"))
                  /\ pifRet' = [files |-> FilesOnError(inputFiles), err |-> <<"failed to get file info">>]
                  /\ pc' = "pif_ret"
                  /\ UNCHANGED <<totalSize, inputFiles, upI>>
             ELSE IF OverLimit(totalSize + f.size)
             THEN /\ fsLog' = Append(fsLog, FsCall("stat", path, "ok"))
                  /\ totalSize' = totalSize + f.size
                  /\ pifRet' = [files |-> FilesOnError(inputFiles),
                                err |-> <<"total upload file size exceeds 10MB limit">>]
                  /\ pc' = "pif_ret"
                  /\ UNCHANGED <<inputFiles, upI>>
             ELSE IF rd = "fail"
             THEN /\ fsLog' = fsLog \o <<FsCall("stat", path, "ok"),
                                         FsCall("read", path, "fail")>>
                  /\ totalSize' = totalSize + f.size
                  /\ pifRet' = [files |-> FilesOnError(inputFiles), err |-> <<"failed to read file">>]
                  /\ pc' = "pif_ret"
                  /\ UNCHANGED <<inputFiles, upI>>
             ELSE /\ fsLog' = fsLog \o <<FsCall("stat", path, "ok"),
                                         FsCall("read", path, "ok")>>
                  /\ totalSize' = totalSize + f.size
                  /\ inputFiles' = Append(inputFiles, InputFile(path, f))
                  /\ upI' = upI + 1
                  /\ UNCHANGED <<pc, pifRet>>
    /\ UNCHANGED <<uploads, out, retErr>>
    /\ UNCHANGED <<runVars, streamVars, hfoVars, cmdVars>>

\* the loop is over: return inputFiles, nil
PrepareInputFilesEnd ==
    /\ pc = "pif_loop"
    /\ upI = Len(options.UploadFiles)
    /\ pifRet' = [files |-> inputFiles, err |-> NoError]
    /\ pc' = "pif_ret"
    /\ UNCHANGED <<uploads, upI, totalSize, inputFiles, fsLog, out, retErr>>
    /\ UNCHANGED <<runVars, streamVars, hfoVars, cmdVars>>

\* the embedding caller receives the files and the error
UploadReturn ==
    /\ pc = "pif_ret"
    /\ caller = "upload"
    /\ retErr' = pifRet.err
    /\ pc' = "done"
    /\ UNCHANGED out
    /\ UNCHANGED <<runVars, streamVars, hfoVars, cmdVars, pifVars>>

\* ------------------------------------------------------------------------
\* runInvokeCommand and invokeCmd.Run
\* ------------------------------------------------------------------------
\* the marker the SDK puts in front of every error of an operation call
OperationError(e) == <<"operation error Bedrock Agent Runtime">> \o e

\* the errors InvokeAgent may return while the context is live
ServiceErrors ==
    { OperationError(e) :
          e \in { <<"InvalidAgentAliasId">>,
                  <<"InvalidAgentId">>,
                  <<"ThrottlingException">>,
                  <<"ValidationException">>,
                  <<"AccessDeniedException">>,
                  <<"ResourceNotFoundException">>,
                  <<"dial tcp", "i/o", "timeout">>,
                  <<"InternalServerException">> } }

\* ctx.Err() once the context is done
ContextError(c) ==
    IF c = "deadline" THEN <<"context deadline exceeded">> ELSE <<"context canceled">>

\* what InvokeAgent may return on success: with or without a completion stream
RunOutputs ==
    { InvokeOutput(Ptr(<<"sess">>), Ptr(<<"application/json">>), Ptr(<<"mem">>), TRUE),
      InvokeOutput(Nil, Nil, Nil, FALSE) }

\* PrepareInvokeInput: the request built from the options and the upload files
InvokeAgentInput(o, files) ==
    [sent |-> FALSE,
     AgentId |-> o.AgentID, AgentAliasId |-> o.AgentAliasID, InputText |-> o.InputText,
     SessionId |-> IF o.SessionID # <<>> THEN o.SessionID ELSE <<"uuid">>,
     Files |-> files]

\* loadConfig(opts.ConfigFile, ...); cmd/invoke.go marks --input as required,
\* so cobra refuses a command line without it before Run is called
RunLoadConfig ==
    /\ pc = "run"
    /\ caller = "run"
    /\ IF run.revision = "cmd/invoke.go" /\ "InputText" \notin DOMAIN run.args
       THEN /\ retErr' = <<"required flag(s) \"input\" not set">>
            /\ pc' = "done"
            /\ UNCHANGED <<options, pkgOpts>>
       ELSE LET r == loadConfig(run.revision, options.ConfigFile, run.file, options, pkgOpts)
            IN  /\ options' = r.options
                /\ pkgOpts' = r.pkgOpts
                /\ retErr' = r.err
                /\ pc' = IF r.err # NoError THEN "done" ELSE "validate"
    /\ UNCHANGED <<run, ctx, client, invoked, invokeErr, request, exitCode, out>>
    /\ UNCHANGED <<runVars, streamVars, hfoVars, pifVars>>

\* validateOptions(opts), then context.WithTimeout(ctx, opts.Timeout)
RunValidate ==
    /\ pc = "validate"
    /\ LET err == validateOptions(run.revision, options, disk, uploads)
       IN  IF err # NoError
           THEN /\ retErr' = err
                /\ pc' = "done"
                /\ UNCHANGED ctx
           ELSE /\ ctx' = "live"
                /\ pc' = "connect"
                /\ UNCHANGED retErr
    /\ UNCHANGED <<run, options, pkgOpts, client, invoked, invokeErr, request, exitCode, out>>
    /\ UNCHANGED <<runVars, streamVars, hfoVars, pifVars>>

\* awsHelper.CreateClient(ctx): loading the SDK configuration may fail
RunCreateClient ==
    /\ pc = "connect"
    /\ \E ok \in BOOLEAN :
         IF ok
         THEN /\ client' = TRUE
              /\ pc' = "output"
              /\ UNCHANGED retErr
         ELSE /\ retErr' = <<"failed to create AWS client", "failed to load AWS config">>
              /\ pc' = "done"
              /\ UNCHANGED client
    /\ UNCHANGED <<run, options, pkgOpts, ctx, invoked, invokeErr, request, exitCode, out>>
    /\ UNCHANGED <<runVars, streamVars, hfoVars, pifVars>>

\* PrepareOutput(opts.OutputFile): standard output, or os.Create of the output
\* file, which truncates it; then NewResponseFormatter(opts, writer)
RunPrepareOutput ==
    /\ pc = "output"
    /\ IF options.OutputFile = <<>>
       THEN /\ opts' = FormatterOptions(options)
            /\ pc' = "input"
            /\ UNCHANGED <<disk, retErr>>
       ELSE \E ok \in BOOLEAN :
              IF ok /\ Clean(options.OutputFile) \notin dirs
              THEN /\ disk' = WriteAt(disk, Clean(options.OutputFile), <<>>)
                   /\ opts' = FormatterOptions(options)
                   /\ pc' = "input"
                   /\ UNCHANGED retErr
              ELSE /\ retErr' = <<"failed to prepare output", "failed to create output file">>
                   /\ pc' = "done"
                   /\ UNCHANGED <<disk, opts>>
    /\ UNCHANGED <<caller, WriteOutput, output, out>>
    /\ UNCHANGED <<hfoFiles, hfoI, savedFiles, hfoErr, dirs, written>>
    /\ UNCHANGED <<streamVars, cmdVars, pifVars>>

\* awsHelper.PrepareInvokeInput() up to the call of PrepareInputFiles
RunPrepareInvokeInput ==
    /\ pc = "input"
    /\ IF Len(options.UploadFiles) > 0
       THEN /\ pc' = "pif"
            /\ UNCHANGED request
       ELSE /\ request' = InvokeAgentInput(options, <<>>)
            /\ pc' = "call"
    /\ UNCHANGED <<run, options, pkgOpts, ctx, client, invoked, invokeErr, exitCode, out, retErr>>
    /\ UNCHANGED <<runVars, streamVars, hfoVars, pifVars>>

\* PrepareInputFiles returned to PrepareInvokeInput
RunAfterPrepareInputFiles ==
    /\ pc = "pif_ret"
    /\ caller = "run"
    /\ IF pifRet.err # NoError
       THEN /\ retErr' = Wrap("failed to prepare invoke input", pifRet.err)
            /\ pc' = "done"
            /\ UNCHANGED request
       ELSE /\ request' = InvokeAgentInput(options, pifRet.files)
            /\ pc' = "call"
            /\ UNCHANGED retErr
    /\ UNCHANGED <<run, options, pkgOpts, ctx, client, invoked, invokeErr, exitCode, out>>
    /\ UNCHANGED <<runVars, streamVars, hfoVars, pifVars>>

\* client.InvokeAgent(ctx, input) is called: the request is in flight
RunInvokeAgent ==
    /\ pc = "call"
    /\ invoked' = invoked + 1
    /\ request' = [request EXCEPT !.sent = TRUE]
    /\ pc' = "invoke"
    /\ UNCHANGED <<run, options, pkgOpts, ctx, client, invokeErr, exitCode, out, retErr>>
    /\ UNCHANGED <<runVars, streamVars, hfoVars, pifVars>>

\* faulty variant: an invocation that failed is tried again
AfterInvokeErrorRetry == "call"

\* if err != nil { return HandleAWSError(...) }
AfterInvokeError == "done"

\* InvokeAgent returns while the context is live: the response, or an error
\* of the service
InvokeAgentReturn ==
    /\ pc = "invoke"
    /\ ~ContextDone(ctx)
    /\ \/ /\ output' \in RunOutputs
          /\ pc' = "format"
          /\ UNCHANGED <<invokeErr, retErr>>
       \/ \E e \in ServiceErrors :
            /\ invokeErr' = e
            /\ retErr' = HandleAWSError(Wrap("failed to invoke agent", e))
            /\ pc' = AfterInvokeError
            /\ UNCHANGED output
    /\ UNCHANGED <<caller, opts, WriteOutput, out>>
    /\ UNCHANGED <<run, options, pkgOpts, ctx, client, invoked, request, exitCode>>
    /\ UNCHANGED <<streamVars, hfoVars, pifVars>>

\* faulty variant: the call is made with a context that is never done
AbortsOnNever(c) == FALSE

\* the context handed to InvokeAgent is the run's: the call and the stream it
\* opens are aborted once that context is done
AbortsOn(c) == ContextDone(c)

\* the context is done while InvokeAgent is in flight: the SDK gives up and
\* returns the context's error as an operation error
InvokeAgentAbort ==
    /\ pc = "invoke"
    /\ AbortsOn(ctx)
    /\ invokeErr' = OperationError(<<"canceled">> \o ContextError(ctx))
    /\ retErr' = HandleAWSError(Wrap("failed to invoke agent", invokeErr'))
    /\ pc' = AfterInvokeError
    /\ UNCHANGED <<run, options, pkgOpts, ctx, client, invoked, request, exitCode, out>>
    /\ UNCHANGED <<runVars, streamVars, hfoVars, pifVars>>

\* the context is done while the stream is drained: the transport closes the
\* event channel and stream.Err() is the context's error
StreamAbort ==
    /\ pc = "stream"
    /\ caller = "run"
    /\ AbortsOn(ctx)
    /\ streamErr' = ContextError(ctx)
    /\ streamRet' = StreamResult(textResponse, citations, outputFiles,
                                 hasReturnControl, streamErr')
    /\ pc' = "streamret"
    /\ UNCHANGED <<consumed, textResponse, citations, outputFiles,
                   hasReturnControl, out, retErr>>
    /\ UNCHANGED <<runVars, hfoVars, cmdVars, pifVars>>

\* the deadline of context.WithTimeout elapses, or the process receives an
\* interrupt (signal.NotifyContext), while the request is in flight or the
\* stream is drained
Cancel ==
    /\ caller = "run"
    /\ pc \in {"invoke", "stream"}
    /\ ctx = "live"
    /\ ctx' \in {"deadline", "canceled"}
    /\ UNCHANGED <<pc, run, options, pkgOpts, client, invoked, invokeErr, request,
                   exitCode, out, retErr>>
    /\ UNCHANGED <<runVars, streamVars, hfoVars, pifVars>>

\* the exit status: 1 after logError when runInvokeCommand returned an error
\* (or cobra refused the command line), 0 otherwise
ExitStatus(err) == IF err # NoError THEN 1 ELSE 0

\* invokeCmd.Run ends; a run that panicked was ended by the Go runtime with
\* status 2
Exit ==
    /\ caller = "run"
    /\ pc \in {"done", "panic"}
    /\ exitCode' = IF pc = "panic" THEN 2 ELSE ExitStatus(retErr)
    /\ pc' = "exit"
    /\ UNCHANGED <<run, options, pkgOpts, ctx, client, invoked, invokeErr, request,
                   out, retErr>>
    /\ UNCHANGED <<runVars, streamVars, hfoVars, pifVars>>

\* ------------------------------------------------------------------------
\* HandleAWSError called on its own
\* ------------------------------------------------------------------------
\* the errors handed to HandleAWSError: nil, the errors of the call with and
\* without the marker of an operation error, the errors of a done context and
\* of the transport, each as it is and wrapped the way the two callers wrap it
HandledErrors ==
    LET named == { OperationError(<<"canceled">> \o ContextError(c)) :
                       c \in {"deadline", "canceled"} }
                 \cup { ContextError(c) : c \in {"deadline", "canceled"} }
                 \cup { OperationError(<<"ValidationException", "file">>) }
                 \cup ServiceErrors
                 \cup { Tail(e) : e \in ServiceErrors }
                 \cup TransportErrors
    IN  {NoError} \cup named
        \cup { Wrap(p, e) : p \in {"failed to invoke agent", "error during streaming"},
                            e \in named }

InitErrors ==
    /\ caller = "errors"
    /\ pc = "handle"
    /\ invokeErr \in HandledErrors
    /\ run = NoRun
    /\ options = DefaultOptions
    /\ pkgOpts = DefaultOptions
    /\ opts = FormatterOptions(DefaultOptions)
    /\ ctx = "none"
    /\ client = FALSE
    /\ invoked = 0
    /\ request = NoRequest
    /\ exitCode = -1
    /\ WriteOutput = FALSE
    /\ output = NoOutput
    /\ hfoFiles = <<>>
    /\ disk = EmptyDisk
    /\ dirs = BaseDirs
    /\ uploads = <<>>
    /\ InitNoUpload
    /\ InitCommon

\* err = HandleAWSError(err)
HandleError ==
    /\ pc = "handle"
    /\ caller = "errors"
    /\ retErr' = HandleAWSError(invokeErr)
    /\ pc' = "done"
    /\ UNCHANGED out
    /\ UNCHANGED <<runVars, streamVars, hfoVars, cmdVars, pifVars>>

\* ------------------------------------------------------------------------
\* processPrompt called on its own
\* ------------------------------------------------------------------------
\* the text of a prompt is a sequence of items: plain text, the text
\* "{{name}}" and the text "{{.name}}"
Text(s) == [kind |-> "text", s |-> s]
Ident(name) == [kind |-> "ident", s |-> name]
Field(name) == [kind |-> "field", s |-> name]

\* const inputPlaceholder = "{{input}}"
inputPlaceholder == Ident("input")

\* the names of pm.funcMap
FuncNames ==
    {"toLowerCase", "toUpperCase", "replace", "join", "split", "contains",
     "hasPrefix", "hasSuffix", "trim"}

\* a --var value: key=value, or a word without "="
Var(key, value) == <<key, "=", value>>

\* strings.SplitN(v, "=", 2)
SplitVar(v) ==
    IF \E i \in 1..Len(v) : v[i] = "="
    THEN LET i == CHOOSE i \in 1..Len(v) : v[i] = "=" /\ \A j \in 1..(i - 1) : v[j] # "="
         IN  <<SubSeq(v, 1, i - 1), SubSeq(v, i + 1, Len(v))>>
    ELSE <<v>>

\* the value stored in varMap: a boolean for true/false in any case, a number
\* if strconv.ParseFloat accepts the value, else the string; and the text
\* that executing the template prints for it
StoredValue(value) ==
    CASE value = <<"TRUE">> -> [type |-> "bool", printed |-> "true"]
      [] value = <<"true">> -> [type |-> "bool", printed |-> "true"]
      [] value = <<"false">> -> [type |-> "bool", printed |-> "false"]
      [] value = <<"1.0">> -> [type |-> "float64", printed |-> "1"]
      [] value = <<"7">> -> [type |-> "float64", printed |-> "7"]
      [] value = <<>> -> [type |-> "string", printed |-> ""]
      [] OTHER -> [type |-> "string", printed |-> value[1]]

\* varMap after the loop over pvars: a later value replaces an earlier one
\* varMap[key] = value
PutVar(varMap, parts) ==
    [k \in DOMAIN varMap \cup {parts[1]} |->
        IF k = parts[1] THEN StoredValue(parts[2]) ELSE varMap[k]]

RECURSIVE VarMap(_)
VarMap(pvars) ==
    IF pvars = <<>> THEN [k \in {} |-> StoredValue(<<>>)]
    ELSE PutVar(VarMap(SubSeq(pvars, 1, Len(pvars) - 1)), SplitVar(pvars[Len(pvars)]))

\* template.Parse: an identifier in an action must be a defined function
ParseFails(content) ==
    \E i \in 1..Len(content) : content[i].kind = "ident" /\ content[i].s \notin FuncNames

\* tmpl.Execute: a function of funcMap called without arguments fails
ExecuteFails(content) ==
    \E i \in 1..Len(content) : content[i].kind = "ident"

\* tmpl.Execute: text is copied, {{.name}} prints varMap[name], "<no value>"
\* for a missing key
Execute(content, varMap) ==
    [i \in 1..Len(content) |->
        IF content[i].kind = "field"
        THEN IF <<content[i].s>> \in DOMAIN varMap
             THEN Text(varMap[<<content[i].s>>].printed)
             ELSE Text("<no value>")
        ELSE content[i]]

\* faulty variant: the variables are never applied
ProcessPromptTemplateSkipped(promptContent, pvars) == [s |-> promptContent, err |-> NoError]

\* PromptManager.ProcessPromptTemplate
ProcessPromptTemplate(promptContent, pvars) ==
    IF Len(pvars) = 0 THEN [s |-> promptContent, err |-> NoError]
    ELSE IF \E i \in 1..Len(pvars) : Len(SplitVar(pvars[i])) # 2
    THEN [s |-> <<>>, err |-> <<"invalid variable format">>]
    ELSE IF ParseFails(promptContent)
    THEN [s |-> <<>>, err |-> <<"failed to parse prompt template">>]
    ELSE IF ExecuteFails(promptContent)
    THEN [s |-> <<>>, err |-> <<"failed to apply template variables">>]
    ELSE [s |-> Execute(promptContent, VarMap(pvars)), err |-> NoError]

\* the prompt directory of the working directory; the directories of the home
\* directory and of /usr/local/share hold no prompts
PromptsDir == <<"prompts">>

\* findPromptByName: the name as it is, then with .txt, .md and .prompt
PromptExtensions == << <<>>, <<".", "txt">>, <<".", "md">>, <<".", "prompt">> >>

\* nameWithExt for one extension, if the extension is tried
NameWithExt(name, hasExtension, ext) ==
    IF ext = <<>> \/ (hasExtension /\ HasSuffix(name, ext)) THEN <<name>>
    ELSE IF ~hasExtension THEN <<name \o ext>>
    ELSE <<>>

PromptCandidates(name, hasExtension) ==
    Flatten([i \in 1..Len(PromptExtensions) |->
                NameWithExt(name, hasExtension, PromptExtensions[i])])

\* the first candidate that can be read
FirstReadable(names, d) ==
    IF \A i \in 1..Len(names) : Join(PromptsDir, names[i]) \notin DOMAIN d
    THEN [s |-> <<>>, err |-> <<"prompt not found">>]
    ELSE [s |-> d[Join(PromptsDir,
                       names[CHOOSE i \in 1..Len(names) :
                                 /\ Join(PromptsDir, names[i]) \in DOMAIN d
                                 /\ \A j \in 1..(i - 1) :
                                        Join(PromptsDir, names[j]) \notin DOMAIN d])],
          err |-> NoError]

findPromptByName(name, d) ==
    FirstReadable(PromptCandidates(name, \E i \in 1..Len(name) : name[i] = "."), d)

\* fmt.Errorf("failed to find prompt '%s': %w", promptName, err)
WrapFindError(r) ==
    IF r.err # NoError THEN [s |-> <<>>, err |-> Wrap("failed to find prompt", r.err)] ELSE r

\* PromptManager.LoadPrompt
LoadPrompt(promptName, promptFile, d) ==
    IF promptFile # <<>>
    THEN IF promptFile \in DOMAIN d
         THEN [s |-> d[promptFile], err |-> NoError]
         ELSE [s |-> <<>>, err |-> <<"failed to load prompt file", "no such file">>]
    ELSE IF promptName # <<>>
    THEN WrapFindError(findPromptByName(promptName, d))
    ELSE [s |-> <<>>, err |-> NoError]

\* strings.ReplaceAll(s, inputPlaceholder, new)
RECURSIVE ReplaceAll(_, _)
ReplaceAll(str, new) ==
    IF str = <<>> THEN <<>>
    ELSE (IF Head(str) = inputPlaceholder THEN new ELSE <<Head(str)>>)
         \o ReplaceAll(Tail(str), new)

NewLine == Text("\n")

\* strings.Contains(processedPrompt, inputPlaceholder)
HasInputPlaceholder(processedPrompt) ==
    \E i \in 1..Len(processedPrompt) : processedPrompt[i] = inputPlaceholder

\* processPrompt after ProcessPromptTemplate returned
PromptProcessed(o, tmpl) ==
    IF tmpl.err # NoError THEN [input |-> o.InputText, err |-> tmpl.err]
    ELSE IF tmpl.s = <<>> THEN [input |-> o.InputText, err |-> <<"loaded prompt is empty">>]
    ELSE IF o.InputText # <<>>
    THEN IF HasInputPlaceholder(tmpl.s)
         THEN [input |-> ReplaceAll(tmpl.s, o.InputText), err |-> NoError]
         ELSE [input |-> tmpl.s \o <<NewLine>> \o o.InputText, err |-> NoError]
    ELSE IF HasInputPlaceholder(tmpl.s)
    THEN [input |-> ReplaceAll(tmpl.s, <<>>), err |-> NoError]
    ELSE [input |-> tmpl.s, err |-> NoError]

\* processPrompt after LoadPrompt returned
PromptLoaded(o, loaded) ==
    IF loaded.err # NoError THEN [input |-> o.InputText, err |-> loaded.err]
    ELSE PromptProcessed(o, ProcessPromptTemplate(loaded.s, o.PromptVars))

\* processPrompt(&opts): the new InputText, or the error
processPrompt(o, d) ==
    IF o.PromptName = <<>> /\ o.PromptFile = <<>> THEN [input |-> o.InputText, err |-> NoError]
    ELSE PromptLoaded(o, LoadPrompt(o.PromptName, o.PromptFile, d))

\* the prompts, the --input texts and the --var lists of the calls
PromptTexts ==
    { <<>>,
      <<Text("Hello")>>,
      <<Text("Translate: "), inputPlaceholder>>,
      <<inputPlaceholder, Text(" or "), inputPlaceholder>>,
      <<Text("To "), Field("lang"), Text(": "), inputPlaceholder>>,
      <<Text("To "), Ident("lang"), Text(": "), inputPlaceholder>>,
      <<Text("To "), Field("lang")>>,
      <<Ident("trim"), Field("lang")>> }

InputTexts == { <<>>, <<Text("Q")>> }

VarLists ==
    { <<>>,
      <<Var("lang", "Spanish")>>,
      <<Var("lang", "TRUE")>>,
      <<Var("lang", "1.0")>>,
      <<Var("lang", "Spanish"), Var("lang", "7")>>,
      <<Var("other", "x")>>,
      <<<<"lang">>>> }

PromptFilePath == <<"p", ".", "txt">>
PromptNames == { <<"tr">>, <<"tr", ".", "md">> }

\* how the prompt is named and where it is stored
PromptSources ==
    { [file |-> PromptFilePath, name |-> <<>>, at |-> PromptFilePath],
      [file |-> PromptFilePath, name |-> <<"tr">>, at |-> <<"q">>],
      [file |-> <<>>, name |-> <<"tr">>, at |-> Join(PromptsDir, <<"tr", ".", "txt">>)],
      [file |-> <<>>, name |-> <<"tr", ".", "md">>, at |-> Join(PromptsDir, <<"tr", ".", "md">>)],
      [file |-> <<>>, name |-> <<"tr", ".", "md">>, at |-> Join(PromptsDir, <<"tr", ".", "txt">>)] }

InitPrompt ==
    /\ caller = "prompt"
    /\ pc = "prompt"
    /\ \E text \in PromptTexts, input \in InputTexts, pvars \in VarLists, src \in PromptSources :
           /\ options = [DefaultOptions EXCEPT !.InputText = input,
                                               !.PromptFile = src.file,
                                               !.PromptName = src.name,
                                               !.PromptVars = pvars]
           /\ disk = WriteAt(EmptyDisk, src.at, text)
    /\ run = NoRun
    /\ pkgOpts = DefaultOptions
    /\ opts = FormatterOptions(DefaultOptions)
    /\ ctx = "none"
    /\ client = FALSE
    /\ invoked = 0
    /\ invokeErr = NoError
    /\ request = NoRequest
    /\ exitCode = -1
    /\ WriteOutput = FALSE
    /\ output = NoOutput
    /\ hfoFiles = <<>>
    /\ dirs = BaseDirs
    /\ uploads = <<>>
    /\ InitNoUpload
    /\ InitCommon

\* err := processPrompt(&opts)
ProcessPrompt ==
    /\ pc = "prompt"
    /\ caller = "prompt"
    /\ options' = [options EXCEPT !.InputText = processPrompt(options, disk).input]
    /\ retErr' = processPrompt(options, disk).err
    /\ pc' = "done"
    /\ UNCHANGED <<run, pkgOpts, ctx, client, invoked, invokeErr, request, exitCode, out>>
    /\ UNCHANGED <<runVars, streamVars, hfoVars, pifVars>>

\* ------------------------------------------------------------------------
\* Specification
\* ------------------------------------------------------------------------
Init == InitFormatter \/ InitStream \/ InitFiles \/ InitUpload \/ InitErrors \/ InitPrompt

Next ==
    \/ WriteTextResponseBegin
    \/ WriteJSONResponseBegin
    \/ OnChunk
    \/ OnFiles
    \/ OnTrace
    \/ OnReturnControl
    \/ OnUnknown
    \/ StreamEnd
    \/ StreamReturn
    \/ WriteTextResponseAfterStream
    \/ WriteJSONResponseAfterStream
    \/ HandleFileOutputBegin
    \/ SaveFile
    \/ HandleFileOutputEnd
    \/ FilesReturn
    \/ WriteTextResponseAfterSave
    \/ WriteJSONResponseAfterSave
    \/ WriteTextResponseEnd
    \/ WriteJSONResponseEnd
    \/ PrepareInputFilesBegin
    \/ PrepareInputFile
    \/ PrepareInputFilesEnd
    \/ UploadReturn
    \/ HandleError
    \/ ProcessPrompt

Spec == Init /\ [][Next]_vars

\* one run of the invoke command, from the parsed command line to the exit
\* of the process
RunNext ==
    \/ RunLoadConfig
    \/ RunValidate
    \/ RunCreateClient
    \/ RunPrepareOutput
    \/ RunPrepareInvokeInput
    \/ PrepareInputFilesBegin
    \/ PrepareInputFile
    \/ PrepareInputFilesEnd
    \/ RunAfterPrepareInputFiles
    \/ RunInvokeAgent
    \/ InvokeAgentReturn
    \/ InvokeAgentAbort
    \/ Cancel
    \/ WriteTextResponseBegin
    \/ WriteJSONResponseBegin
    \/ OnChunk
    \/ OnFiles
    \/ OnTrace
    \/ OnReturnControl
    \/ OnUnknown
    \/ StreamEnd
    \/ StreamAbort
    \/ WriteTextResponseAfterStream
    \/ WriteJSONResponseAfterStream
    \/ HandleFileOutputBegin
    \/ SaveFile
    \/ HandleFileOutputEnd
    \/ WriteTextResponseAfterSave
    \/ WriteJSONResponseAfterSave
    \/ WriteTextResponseEnd
    \/ WriteJSONResponseEnd
    \/ Exit

RunSpec == InitRun /\ [][RunNext]_vars

\* the steps the process takes by itself once the context of the call is
\* done: the call or the stream is given up, ProcessStream's result is
\* returned through the formatter, invokeCmd.Run ends the process.  What the
\* service and the user do (the response, the events, the end of the stream,
\* the deadline or interrupt) is left out.
AbortStep ==
    \/ InvokeAgentAbort
    \/ StreamAbort
    \/ WriteTextResponseAfterStream
    \/ WriteJSONResponseAfterStream
    \/ Exit

\* a run whose process is scheduled: it does not stop while it has such a step
FairRunSpec == RunSpec /\ WF_vars(AbortStep)


\* ------------------------------------------------------------------------
\* Properties of the stream reducer
\* ------------------------------------------------------------------------
IsChunk(ev) == ev.type = "Chunk"
IsFiles(ev) == ev.type = "Files"
IsReturnControl(ev) == ev.type = "ReturnControl"
IsCitedChunk(ev) == ev.type = "Chunk" /\ ~ev.Attribution.nil

\* ProcessStream has returned its values to its caller
StreamReturned ==
    /\ caller \in {"formatter", "stream"}
    /\ output.hasStream
    /\ pc \in {"streamret", "hfo", "hfo_loop", "hfo_ret", "text_tail", "json_doc", "done"}

\* the payloads of the text chunks of evs, concatenated in arrival order
PayloadsOf(evs) ==
    LET cs == SelectSeq(evs, IsChunk)
    IN  Flatten([i \in 1..Len(cs) |-> cs[i].Bytes])

\* the citation lists of the attributed text chunks of evs, concatenated in
\* arrival order
CitationsOf(evs) ==
    LET cs == SelectSeq(evs, IsCitedChunk)
    IN  Flatten([i \in 1..Len(cs) |-> cs[i].Attribution.Citations])

\* the file lists of the generated-files events of evs, concatenated in
\* arrival order
FilesOf(evs) ==
    LET fs == SelectSeq(evs, IsFiles)
    IN  Flatten([i \in 1..Len(fs) |-> fs[i].Files])

HandoffOf(evs) == \E i \in 1..Len(evs) : IsReturnControl(evs[i])

\* C1: the text ProcessStream returns is the concatenation, in arrival order,
\* of the payloads of the text chunks it consumed, whatever other events were
\* interleaved between them.
C1_TextIsConcatenation ==
    StreamReturned => streamRet.text = PayloadsOf(consumed)

\* two non-empty chunks with another kind of event between them were reduced
C1_Witness ==
    /\ StreamReturned
    /\ Len(consumed) = 3
    /\ IsChunk(consumed[1]) /\ consumed[1].Bytes = <<"world!">>
    /\ ~IsChunk(consumed[2])
    /\ IsChunk(consumed[3]) /\ consumed[3].Bytes = <<"Hello, ">>
    /\ streamRet.text = <<"world!", "Hello, ">>

\* C2: the citations ProcessStream returns are the concatenation, in arrival
\* order and without deduplication, of the citation lists of the attributed
\* chunks, in every echo mode and format and for empty payloads too.
C2_CitationsAreConcatenation ==
    StreamReturned => streamRet.citations = CitationsOf(consumed)

\* without echo, an empty chunk and a non-empty chunk both carried the same
\* citation, which is returned twice
C2_Witness ==
    /\ StreamReturned
    /\ ~Echoing(WriteOutput, opts.OutputFormat)
    /\ Len(consumed) = 2
    /\ consumed[1] = Chunk(<<>>, Attribution(<<CitB, CitA>>))
    /\ consumed[2] = Chunk(<<"cited">>, Attribution(<<CitA>>))
    /\ streamRet.citations = <<CitB, CitA, CitA>>

\* C3: the output files ProcessStream returns are the concatenation of the
\* batches of the generated-files events, batches in arrival order and files
\* in their order within the batch.
C3_FilesAreConcatenation ==
    StreamReturned => streamRet.files = FilesOf(consumed)

\* a batch of two files arrived before a batch of one
C3_Witness ==
    /\ StreamReturned
    /\ Len(consumed) = 3
    /\ consumed[1] = Files(<<FileB, FileNoName>>)
    /\ consumed[3] = Files(<<FileA>>)
    /\ streamRet.files = <<FileB, FileNoName, FileA>>

ScenarioA ==
    <<Chunk(<<"Hello, ">>, NoAttribution), Chunk(<<"world!">>, NoAttribution),
      ReturnControl(Ptr(<<"abc">>))>>

\* C4: the handoff flag ProcessStream returns is true exactly when a
\* ReturnControl event was consumed; the stream "Hello, ", "world!",
\* ReturnControl reduces to the text "Hello, world!", no citations, no files
\* and handoff true.
C4_HandoffIffReturnControl ==
    StreamReturned =>
        /\ streamRet.handoff = HandoffOf(consumed)
        /\ consumed = ScenarioA =>
               /\ streamRet.text = <<"Hello, ", "world!">>
               /\ streamRet.citations = <<>>
               /\ streamRet.files = <<>>
               /\ streamRet.handoff = TRUE

C4_Witness ==
    /\ StreamReturned
    /\ consumed = ScenarioA
    /\ streamRet.handoff

\* C5: when the transport reports a terminal error, ProcessStream returns a
\* non-nil error that carries the transport error, together with everything
\* accumulated from the events delivered before the failure.
C5_PartialResultWithError ==
    (StreamReturned /\ streamErr # NoError) =>
        /\ streamRet.err # NoError
        /\ streamRet.err # streamErr
        /\ HasSuffix(streamRet.err, streamErr)
        /\ streamRet.text = PayloadsOf(consumed)
        /\ streamRet.citations = CitationsOf(consumed)
        /\ streamRet.files = FilesOf(consumed)
        /\ streamRet.handoff = HandoffOf(consumed)

\* two text chunks were delivered, then the transport failed
C5_Witness ==
    /\ StreamReturned
    /\ streamErr # NoError
    /\ Len(consumed) = 2
    /\ consumed[1] = Chunk(<<"Hello, ">>, NoAttribution)
    /\ consumed[2] = Chunk(<<"world!">>, NoAttribution)
    /\ streamRet.text = <<"Hello, ", "world!">>
    /\ streamRet.err # NoError


\* ------------------------------------------------------------------------
\* Properties of the echo and of the structured document
\* ------------------------------------------------------------------------
IsChunkWrite(w) == w.kind = "chunk"
IsNonEmptyChunk(ev) == ev.type = "Chunk" /\ Len(ev.Bytes) > 0

\* the chunk bytes the writer received, concatenated in write order
EchoedBytes(o) ==
    LET ws == SelectSeq(o, IsChunkWrite)
    IN  Flatten([i \in 1..Len(ws) |-> ws[i].data])

\* C6: in plain-text mode with echo enabled every non-empty chunk is written
\* before the next event is pulled: between any two events the chunk bytes
\* echoed so far equal the text accumulated so far, one write per non-empty
\* chunk.
C6_EchoKeepsUpWithText ==
    (caller \in {"formatter", "stream"} /\ Echoing(WriteOutput, opts.OutputFormat)) =>
        /\ EchoedBytes(out) = textResponse
        /\ Len(SelectSeq(out, IsChunkWrite)) = Len(SelectSeq(consumed, IsNonEmptyChunk))

\* the formatter is in the middle of a stream, two chunks echoed so far
C6_Witness ==
    /\ IsFormatter("text")
    /\ pc = "stream"
    /\ Len(consumed) = 2
    /\ EchoedBytes(out) = <<"Hello, ", "world!">>
    /\ textResponse = <<"Hello, ", "world!">>

\* C7: in json mode the output receives nothing while the stream is consumed;
\* it receives one write, the whole document, once the run has succeeded, and
\* nothing at all when the stream ended in error.
C7_JSONSingleWriteAtEnd ==
    IsFormatter("json") =>
        IF pc = "done" /\ retErr = NoError
        THEN /\ Len(out) = 1
             /\ out[1].kind = "json"
             /\ out[1].data["content"] = V(PayloadsOf(consumed))
        ELSE out = <<>>

\* a json run consumed text chunks and has written its document
C7_Witness ==
    /\ IsFormatter("json")
    /\ pc = "done"
    /\ retErr = NoError
    /\ Len(consumed) = MaxEvents
    /\ PayloadsOf(consumed) = <<"Hello, ", "world!">>
    /\ Len(out) = 1

OptionalKeys == {"citations", "files", "savedFiles", "returnedControl", "memoryId"}

\* the Materializer saved at least one file
SavedSomething == \E i \in 1..Len(written) : written[i].result = "ok"

\* C8: in the structured document each optional key is present exactly when
\* it applies, and is never null.
C8_OptionalKeysOnlyWhenApplicable ==
    \A i \in 1..Len(out) :
        out[i].kind = "json" =>
            LET d == out[i].data
            IN  /\ ("citations" \in DOMAIN d) <=> (Len(streamRet.citations) > 0)
                /\ ("files" \in DOMAIN d) <=> (Len(streamRet.files) > 0)
                /\ ("savedFiles" \in DOMAIN d) <=> SavedSomething
                /\ ("returnedControl" \in DOMAIN d) <=> streamRet.handoff
                /\ ("returnedControl" \in DOMAIN d) => d["returnedControl"] = V(TRUE)
                /\ ("memoryId" \in DOMAIN d) <=> ~output.MemoryId.nil
                /\ \A k \in OptionalKeys \cap DOMAIN d : ~d[k].null

\* a document without citations and files, with the handoff flag and a
\* memory id
C8_Witness ==
    /\ IsFormatter("json")
    /\ pc = "done"
    /\ Len(out) = 1
    /\ HandoffOf(consumed)
    /\ DOMAIN out[1].data \cap OptionalKeys = {"returnedControl", "memoryId"}

\* ------------------------------------------------------------------------
\* Properties of the Materializer
\* ------------------------------------------------------------------------
\* HandleFileOutput was called on files to save and has returned
HandleFileOutputReturned ==
    /\ pc \in {"hfo_ret", "text_tail", "json_doc", "done"}
    /\ Len(hfoFiles) > 0
    /\ opts.FilesOutputDir # <<>>

\* p is name with the index n inserted before its extension, in dir
IsIndexed(p, dir, name, n) ==
    \E k \in 0..Len(name) :
        /\ SubSeq(name, k + 1, Len(name)) = Ext(name)
        /\ p = Join(dir, SubSeq(name, 1, k) \o <<"_">> \o Itoa(n) \o Ext(name))

\* C9: given two files whose declared names have the same base name,
\* HandleFileOutput does not overwrite the first: the second is saved under
\* the name with its index 2 inserted before the extension, and afterwards
\* both saved paths hold their own bytes.
C9_SameBaseNameNotOverwritten ==
    ( /\ HandleFileOutputReturned
      /\ hfoErr = NoError
      /\ Len(hfoFiles) = 2
      /\ ~hfoFiles[1].Name.nil
      /\ ~hfoFiles[2].Name.nil
      /\ Base(hfoFiles[1].Name.s) = Base(hfoFiles[2].Name.s) ) =>
        /\ Len(savedFiles) = 2
        /\ savedFiles[1] # savedFiles[2]
        /\ IsIndexed(savedFiles[2], opts.FilesOutputDir, Base(hfoFiles[2].Name.s), 2)
        /\ savedFiles[1] \in DOMAIN disk
        /\ savedFiles[2] \in DOMAIN disk
        /\ disk[savedFiles[1]] = hfoFiles[1].Bytes
        /\ disk[savedFiles[2]] = hfoFiles[2].Bytes

\* a.t and d/a.t were saved into an empty directory
C9_Witness ==
    /\ caller = "files"
    /\ pc = "done"
    /\ hfoErr = NoError
    /\ Len(hfoFiles) = 2
    /\ hfoFiles[1].Name = Ptr(NameA)
    /\ hfoFiles[2].Name = Ptr(<<"d", "/", "a", ".", "t">>)
    /\ savedFiles = << <<"o", "/", "a", ".", "t">>,
                       <<"o", "/", "a", "_", "2", ".", "t">> >>
    /\ disk[savedFiles[1]] = <<"1">>
    /\ disk[savedFiles[2]] = <<"2">>

\* p names an entry of the directory dir itself
IsDirectChild(p, dir) ==
    LET d      == Clean(dir)
        prefix == IF d = <<Dot>> THEN <<>>
                  ELSE IF d = <<Sep>> THEN d
                  ELSE d \o <<Sep>>
        leaf   == SubSeq(p, Len(prefix) + 1, Len(p))
    IN  /\ Len(p) > Len(prefix)
        /\ SubSeq(p, 1, Len(prefix)) = prefix
        /\ Sep \notin Range(leaf)
        /\ leaf \notin {<<Dot>>, DotDot}

\* C10: whatever the declared names, every path HandleFileOutput writes to
\* or returns is a direct child of the configured output directory.
C10_WritesStayInOutputDir ==
    /\ \A i \in 1..Len(written) : IsDirectChild(written[i].path, opts.FilesOutputDir)
    /\ \A i \in 1..Len(savedFiles) : IsDirectChild(savedFiles[i], opts.FilesOutputDir)

\* a name with a '..' segment and the name '..' were both saved
C10_Witness ==
    /\ caller = "files"
    /\ pc = "done"
    /\ Len(hfoFiles) = 2
    /\ hfoFiles[1].Name = Ptr(NameUpA)
    /\ hfoFiles[2].Name = Ptr(DotDot)
    /\ Len(savedFiles) = 2
    /\ Len(written) = 2

\* HandleFileOutput returned because a write failed
WriteFailed ==
    /\ HandleFileOutputReturned
    /\ hfoErr # NoError
    /\ hfoErr[1] = "failed to save file"

\* no later os.WriteFile call went to the path of the i-th call
LastWriteTo(i) == \A j \in (i + 1)..Len(written) : written[j].path # written[i].path

\* C11: when writing a file fails, HandleFileOutput stops at once: the failed
\* write is the last one attempted, the paths returned with the error are
\* exactly the paths written successfully before it, in order, and each of
\* them is still on disk (with the bytes written to it, unless the failed
\* write went to that same path).
C11_StopsAtFirstWriteFailure ==
    WriteFailed =>
        LET n == Len(written)
        IN  /\ n > 0
            /\ written[n].result # "ok"
            /\ written[n].index = hfoI + 1
            /\ \A i \in 1..(n - 1) : written[i].result = "ok"
            /\ savedFiles = [i \in 1..(n - 1) |-> written[i].path]
            /\ \A i \in 1..(n - 1) :
                   /\ written[i].path \in DOMAIN disk
                   /\ LastWriteTo(i) =>
                          disk[written[i].path] = hfoFiles[written[i].index].Bytes

\* of three generated files the first was saved and the second failed: the
\* third was not attempted
C11_Witness ==
    /\ WriteFailed
    /\ pc = "done"
    /\ Len(hfoFiles) = 3
    /\ Len(written) = 2
    /\ written[2].index = 2
    /\ Len(savedFiles) = 1
    /\ disk[savedFiles[1]] = hfoFiles[1].Bytes

\* ------------------------------------------------------------------------
\* Properties of a run of the invoke command
\* ------------------------------------------------------------------------
\* the process of a run has exited
Exited == caller = "run" /\ pc = "exit"

\* HandleFileOutput was called in the run and returned an error
MaterializationFailed == hfoErr # NoError

\* C12: a failure while materializing generated files is surfaced as an error
\* and aborts the run: FormatAndWriteResponse returns a non-nil error and the
\* process exits non-zero, in text and in json mode.
C12_FileFailureFailsRun ==
    (Exited /\ MaterializationFailed) => (retErr # NoError /\ exitCode # 0)

\* ------------------------------------------------------------------------
\* Properties of PrepareInputFiles
\* ------------------------------------------------------------------------
RECURSIVE SizeOfFirst(_)
\* the sum of the sizes of the first k upload paths
SizeOfFirst(k) ==
    IF k = 0 THEN 0
    ELSE SizeOfFirst(k - 1) + uploads[options.UploadFiles[k]].size

\* the positions at which the running total is over the limit
Crossing == { k \in 1..Len(options.UploadFiles) : SizeOfFirst(k) > maxSize }

\* the paths os.ReadFile was called on
ReadPaths == { fsLog[i].path : i \in { j \in 1..Len(fsLog) : fsLog[j].op = "read" } }

\* no os.Stat or os.ReadFile call failed
NoFsFailure == \A i \in 1..Len(fsLog) : fsLog[i].result = "ok"

SizeLimitError == <<"total upload file size exceeds 10MB limit">>

\* C13: PrepareInputFiles succeeds when the sizes sum to exactly 10 MiB and
\* fails with the size-limit error when they sum to more; the total is checked
\* after each stat and before the read, so the file that crosses the limit and
\* the files after it are never read.
C13_SizeLimitBoundary ==
    caller = "upload" =>
        /\ \A k \in Crossing :
               \A j \in k..Len(options.UploadFiles) :
                   options.UploadFiles[j] \notin ReadPaths
        /\ (pc = "done" /\ NoFsFailure) =>
               IF SizeOfFirst(Len(options.UploadFiles)) <= maxSize
               THEN /\ retErr = NoError
                    /\ Len(pifRet.files) = Len(options.UploadFiles)
               ELSE /\ retErr = SizeLimitError
                    /\ pifRet.files = <<>>

\* a first file of exactly 10 MiB was read, the second one took the total to
\* 10 MiB + 1 and the call failed without reading it
C13_Witness ==
    /\ caller = "upload"
    /\ pc = "done"
    /\ Len(options.UploadFiles) = 2
    /\ SizeOfFirst(1) = maxSize
    /\ SizeOfFirst(2) = maxSize + 1
    /\ ReadPaths = {options.UploadFiles[1]}
    /\ retErr = SizeLimitError
    /\ NoFsFailure

\* the options of the run after loadConfig returned without error
ConfigLoaded ==
    /\ caller = "run"
    /\ pc # "run"
    /\ ~(run.revision = "cmd/invoke.go" /\ "InputText" \notin DOMAIN run.args)
    /\ loadConfig(run.revision, ParseFlags(run.args).ConfigFile, run.file,
                  ParseFlags(run.args), ParseFlags(run.args)).err = NoError

\* the reasons for which options are to be rejected, each with its message
Rejections ==
    LET o == options
        If(cond, msg) == IF cond THEN {msg} ELSE {}
    IN  If(o.AgentID = "", <<"agent ID is required">>)
        \cup If(o.AgentAliasID = "", <<"agent alias ID is required">>)
        \cup If(o.InputText = "" /\ o.PromptName = "" /\ o.PromptFile = "",
                IF run.revision = "part_003"
                THEN <<"input is required (or use --prompt/--prompt-file)">>
                ELSE <<"input text is required">>)
        \cup If(o.Timeout <= 0, <<"timeout must be a positive duration">>)
        \cup If(o.OutputFormat \notin {"text", "json"},
                <<"output format must be one of: text, json">>)
        \cup If(o.FilesOutputDir # <<>> /\ Clean(o.FilesOutputDir) \in DOMAIN run.prior,
                <<"save-files path exists but is not a directory">>)
        \cup If(Len(o.UploadFiles) > 5, <<"maximum 5 files can be uploaded">>)
        \cup If(\E i \in 1..Len(run.uploads) : ~run.uploads[i].exists,
                <<"upload file does not exist">>)
        \cup If(Len(o.UploadFiles) > 0 /\ o.FileUseCase \notin {"CODE_INTERPRETER", "CHAT"},
                <<"file-use-case must be one of: CODE_INTERPRETER, CHAT">>)

\* C14: when the options are rejected by validation (a required field missing,
\* a non-positive timeout, an unknown format, a save-files path that is a
\* file, more than 5 upload files, a missing upload path, an unknown use case
\* with uploads), runInvokeCommand returns the validation error without
\* creating the client or calling InvokeAgent.
C14_RejectedBeforeAnyCall ==
    (ConfigLoaded /\ Rejections # {}) =>
        /\ client = FALSE
        /\ invoked = 0
        /\ request = NoRequest
        /\ pc \in {"validate", "done", "exit"}
        /\ pc \in {"done", "exit"} => retErr \in Rejections
        /\ pc = "exit" => exitCode = 1

\* a run with a timeout of zero has returned the timeout error
C14_Witness ==
    /\ ConfigLoaded
    /\ pc = "done"
    /\ options.Timeout = 0
    /\ retErr = <<"timeout must be a positive duration">>
    /\ client = FALSE
    /\ invoked = 0

\* C15: InvokeAgent is called at most once per run: after an invocation error
\* or a stream error there is no retry, the failure is returned.
C15_InvokedAtMostOnce ==
    caller = "run" =>
        /\ invoked <= 1
        /\ invokeErr # NoError =>
               /\ pc \in {"done", "exit"}
               /\ retErr # NoError
        /\ streamErr # NoError =>
               /\ pc \notin {"call", "invoke"}
               /\ pc \in {"done", "exit"} => retErr # NoError

\* the single invocation failed with a service error and the run has ended
C15_Witness ==
    /\ Exited
    /\ invoked = 1
    /\ invokeErr \in ServiceErrors
    /\ retErr # NoError
    /\ exitCode = 1

\* the options a configuration key may set
ConfigFields == {"AgentID", "AgentAliasID", "Region", "Timeout"}

\* C16: for each of the keys agent_id, agent_alias_id, region and timeout, a
\* value given by a command-line flag takes precedence over the value of the
\* configuration file: after loadConfig the option holds the flag's value
\* whenever the flag was given, whatever that value is.
C16_FlagsTakePrecedence ==
    ConfigLoaded =>
        \A f \in ConfigFields : f \in DOMAIN run.args => options[f] = run.args[f]

\* the configuration file was read and none of --agent-id, --agent-alias-id
\* and --region was given
OnlyFileNamesAgent ==
    /\ ConfigLoaded
    /\ run.file.state = "ok"
    /\ {"agent_id", "agent_alias_id", "region"} \subseteq DOMAIN run.file.keys
    /\ {"AgentID", "AgentAliasID", "Region"} \cap DOMAIN run.args = {}

\* C17: when --agent-id, --agent-alias-id and --region are not given and the
\* configuration file defines agent_id, agent_alias_id and region, the values
\* of the file are the ones validateOptions checks and the ones sent in the
\* InvokeAgent request; such a run passes the required-field validation.
C17_FileValuesReachValidationAndRequest ==
    OnlyFileNamesAgent =>
        /\ options.AgentID = run.file.keys["agent_id"]
        /\ options.AgentAliasID = run.file.keys["agent_alias_id"]
        /\ options.Region = run.file.keys["region"]
        /\ retErr \notin {<<"agent ID is required">>, <<"agent alias ID is required">>}
        /\ request # NoRequest =>
               /\ request.AgentId = run.file.keys["agent_id"]
               /\ request.AgentAliasId = run.file.keys["agent_alias_id"]

\* the message of the category a service error belongs to, by what the error
\* is: the exception it names, or the context or network failure behind it
CategoryMessage(e) ==
    IF Contains(e, "InvalidAgentAliasId")
    THEN "agent alias ID not found or not accessible with your credentials"
    ELSE IF Contains(e, "InvalidAgentId")
    THEN "agent ID not found or not accessible with your credentials"
    ELSE IF Contains(e, "ThrottlingException")
    THEN "request was throttled - please reduce request rate and try again"
    ELSE IF Contains(e, "ValidationException")
    THEN "validation error - please check your input parameters"
    ELSE IF Contains(e, "AccessDeniedException")
    THEN "access denied - check your IAM permissions for Bedrock services"
    ELSE IF Contains(e, "ResourceNotFoundException")
    THEN "resource not found - verify your agent ID and alias ID are correct"
    ELSE IF Contains(e, "context deadline exceeded")
    THEN "operation timed out - try increasing the timeout value"
    ELSE IF Contains(e, "dial tcp") /\ ContainsSeq(e, <<"i/o", "timeout">>)
    THEN "network connection timed out - check your internet connection"
    ELSE IF Contains(e, "context canceled")
    THEN "operation canceled by user"
    ELSE "AWS Bedrock error"

\* C18: every service error of a known category (invalid agent id, invalid
\* alias id, throttled, validation failure, access denied, resource not found,
\* deadline exceeded, network timeout, user cancellation) is rewritten into
\* that category's message, whether it comes from the InvokeAgent call or from
\* the stream's terminal error; only the others get "AWS Bedrock error".
C18_ErrorsGetTheirCategoryMessage ==
    (caller = "run" /\ pc \in {"done", "exit"}) =>
        /\ invokeErr # NoError => Head(retErr) = CategoryMessage(invokeErr)
        /\ streamErr # NoError => Head(retErr) = CategoryMessage(streamErr)

\* the deadline elapsed or the interrupt arrived while the invocation is in
\* flight or the stream is drained
CancelledInFlight ==
    /\ caller = "run"
    /\ ContextDone(ctx)
    /\ pc \in {"invoke", "stream"}

\* the run ended in a failure: runInvokeCommand returned the error of the
\* aborted call or of ProcessStream and the process exited 1, or the process
\* was ended by a panic
ExitedWithFailure ==
    /\ Exited
    /\ exitCode # 0
    /\ \/ exitCode = 2
       \/ /\ retErr # NoError
          /\ invokeErr # NoError \/ (streamErr # NoError /\ streamRet.err = retErr)

StreamFailed == caller = "run" /\ streamErr # NoError

\* the kinds of writes that deliver a part of the result: text, file
\* summaries, citations, session metadata, the structured document
ResultKinds ==
    {"chunk", "generated", "saved", "citations", "session", "contentType", "memory", "json"}

\* the kinds of writes made while the stream is drained in plain-text mode
IncrementalKinds == {"header", "uploaded", "chunk", "generated", "control"}

KindsOf(o) == { o[i].kind : i \in 1..Len(o) }

\* C20 as stated: when the run is cancelled or the stream otherwise fails
\* while it is drained, none of the text, file summaries, citations or session
\* metadata gathered so far is delivered to the output, in either format.
C20_NothingDeliveredAfterStreamFailure ==
    StreamFailed => KindsOf(out) \cap ResultKinds = {}

\* C20, amended: when the stream of a run fails, nothing is delivered after the
\* failure.  In json mode the output receives nothing at all.  In text mode it
\* keeps what was written while the stream was drained (the header, the text of
\* every chunk, the line of every generated file) and receives no saved-files
\* summary, no session metadata and no citations; no generated file is
\* materialized in either mode.
C20_OnlyIncrementalOutputAfterStreamFailure ==
    StreamFailed =>
        /\ written = <<>>
        /\ IF opts.OutputFormat = "json"
           THEN out = <<>>
           ELSE /\ KindsOf(out) \subseteq IncrementalKinds
                /\ EchoedBytes(out) = textResponse
                /\ out[1].kind = "header"

\* a text run was cancelled after a chunk and a cited chunk were echoed; it
\* has exited with only the header and the two chunks written
C20_Witness ==
    /\ Exited
    /\ StreamFailed
    /\ ContextDone(ctx)
    /\ opts.OutputFormat = "text"
    /\ Len(citations) > 0
    /\ KindsOf(out) = {"header", "chunk"}
    /\ EchoedBytes(out) = textResponse
    /\ Len(textResponse) = 2

\* ------------------------------------------------------------------------
\* Further properties of the stream reducer
\* ------------------------------------------------------------------------
\* a is a prefix of b
IsPrefix(a, b) == Len(a) <= Len(b) /\ SubSeq(b, 1, Len(a)) = a

\* C22: the reducer's accumulators are append-only: after every processed
\* event the accumulated text, the citation list and the output-file list each
\* have their previous value as a prefix, and the handoff flag never goes from
\* true back to false.
C22_AccumulatorsAppendOnly ==
    [][ /\ IsPrefix(textResponse, textResponse')
        /\ IsPrefix(citations, citations')
        /\ IsPrefix(outputFiles, outputFiles')
        /\ hasReturnControl => hasReturnControl' ]_vars

\* a return-control event was followed by a cited chunk and a file batch: all
\* three accumulators are non-empty and the flag is still set
C22_Witness ==
    /\ pc = "stream"
    /\ Len(consumed) = 3
    /\ IsReturnControl(consumed[1])
    /\ IsCitedChunk(consumed[2])
    /\ IsFiles(consumed[3])
    /\ hasReturnControl
    /\ Len(textResponse) > 0
    /\ Len(citations) > 0
    /\ Len(outputFiles) > 0

\* ------------------------------------------------------------------------
\* Properties of HandleAWSError
\* ------------------------------------------------------------------------
\* HandleAWSError has returned to a caller that called it on its own
Handled == caller = "errors" /\ pc = "done"

\* C23: for every non-nil error HandleAWSError returns a non-nil error that
\* wraps the original one, whichever category branch is taken: the result is
\* one message in front of the original error, whose text it still contains;
\* HandleAWSError(nil) is nil.
C23_HandleAWSErrorWraps ==
    Handled =>
        IF invokeErr = NoError
        THEN retErr = NoError
        ELSE /\ retErr # NoError
             /\ Len(retErr) = Len(invokeErr) + 1
             /\ Tail(retErr) = invokeErr

\* a throttling error of the stream was rewritten and still carries its cause
C23_Witness ==
    /\ Handled
    /\ invokeErr = Wrap("error during streaming", OperationError(<<"ThrottlingException">>))
    /\ Head(retErr) = "request was throttled - please reduce request rate and try again"
    /\ Tail(retErr) = invokeErr

\* PrepareInputFiles has returned to a caller that called it on its own
Prepared == caller = "upload" /\ pc = "done"

\* C24: PrepareInputFiles has no partial success: whenever it returns an error
\* (stat failure, size limit, read failure) for the k-th path it returns no
\* upload files at all, although files 1..k-1 were read; with no configured
\* paths it returns an empty list and no error.
C24_NoPartialUploads ==
    Prepared =>
        /\ pifRet.err # NoError => pifRet.files = <<>>
        /\ pifRet.err = NoError =>
               /\ Len(pifRet.files) = Len(options.UploadFiles)
               /\ pifRet.files = inputFiles
        /\ Len(options.UploadFiles) = 0 =>
               /\ pifRet = NoFiles
               /\ fsLog = <<>>

\* the first file was read and kept, the read of the second failed, and the
\* call returned the error without any file
C24_Witness ==
    /\ Prepared
    /\ Len(options.UploadFiles) = 2
    /\ Len(inputFiles) = 1
    /\ pifRet.err = <<"failed to read file">>
    /\ pifRet.files = <<>>
    /\ ReadPaths = {options.UploadFiles[1], options.UploadFiles[2]}

\* ------------------------------------------------------------------------
\* Further properties of the formatter
\* ------------------------------------------------------------------------
\* this step is the formatter's call of HandleFileOutput
CallsHandleFileOutput == pc # "hfo" /\ pc' = "hfo"

\* the stream of a formatter ended with a terminal error
FormatterStreamFailed == caller \in {"formatter", "run"} /\ streamErr # NoError

\* C25: the Materializer (HandleFileOutput) runs at most once per run and only
\* after the reducer has consumed the whole stream with no terminal error: if
\* the stream ends in error, no generated file is written to disk and the
\* formatter returns the error without printing session info or citations.
C25_MaterializerOnceAfterCleanStream ==
    /\ [][ CallsHandleFileOutput =>
               /\ pc = "streamret"
               /\ streamErr = NoError
               /\ streamRet.err = NoError
               /\ streamRet.files = FilesOf(consumed)
               /\ written = <<>>
               /\ hfoErr = NoError ]_vars
    /\ [](FormatterStreamFailed =>
               /\ written = <<>>
               /\ savedFiles = <<>>
               /\ dirs = BaseDirs
               /\ KindsOf(out) \cap {"saved", "session", "contentType", "memory",
                                     "citations", "json"} = {}
               /\ pc = "done" => retErr = streamRet.err /\ retErr # NoError)

\* a formatter with an output directory received a file and a cited chunk,
\* the stream failed, and it has returned the error with nothing saved
C25_Witness ==
    /\ caller = "formatter"
    /\ pc = "done"
    /\ streamErr # NoError
    /\ opts.FilesOutputDir # <<>>
    /\ Len(outputFiles) > 0
    /\ Len(citations) > 0
    /\ ~output.SessionId.nil
    /\ written = <<>>
    /\ retErr # NoError

\* the position of a kind of write in the order of writeTextResponse
Rank(kind) ==
    CASE kind = "header" -> 1
      [] kind = "uploaded" -> 2
      [] kind \in {"chunk", "generated", "control", "nocontent"} -> 3
      [] kind = "saved" -> 4
      [] kind = "session" -> 5
      [] kind = "contentType" -> 6
      [] kind = "memory" -> 7
      [] kind = "citations" -> 8
      [] OTHER -> 0

\* the writes of kind k in o
Count(o, k) == Cardinality({ i \in 1..Len(o) : o[i].kind = k })

\* a successful plain-text call of the formatter has returned
TextSucceeded ==
    /\ caller = "formatter"
    /\ opts.OutputFormat = "text"
    /\ pc = "done"
    /\ retErr = NoError

\* C26: in a successful plain-text run the writes occur in this order: the
\* header, the uploaded-files summary (only if upload files were configured),
\* all echoed stream content, the saved-files summary (only if files were
\* generated, an output directory was configured and at least one file was
\* saved), the session id / content type / memory id lines (each only if
\* present), and last the citation block (only if the citation list is
\* non-empty).
C26_TextWriteOrder ==
    TextSucceeded =>
        /\ \A i \in 1..Len(out) : Rank(out[i].kind) > 0
        /\ \A i \in 1..(Len(out) - 1) :
               \/ Rank(out[i].kind) < Rank(out[i + 1].kind)
               \/ Rank(out[i].kind) = 3 /\ Rank(out[i + 1].kind) = 3
        /\ Len(out) > 0 /\ out[1].kind = "header"
        /\ Count(out, "uploaded") = (IF opts.hasUploadFiles THEN 1 ELSE 0)
        /\ Count(out, "session") = (IF output.SessionId.nil THEN 0 ELSE 1)
        /\ Count(out, "contentType") = (IF output.ContentType.nil THEN 0 ELSE 1)
        /\ Count(out, "memory") = (IF output.MemoryId.nil THEN 0 ELSE 1)
        /\ Count(out, "citations") = (IF Len(citations) > 0 THEN 1 ELSE 0)
        /\ Count(out, "saved") = 1 =>
               /\ Len(outputFiles) > 0
               /\ opts.FilesOutputDir # <<>>
               /\ Len(savedFiles) > 0
               /\ out[CHOOSE i \in 1..Len(out) : out[i].kind = "saved"].data = savedFiles

\* a successful plain-text call that wrote every part: uploads, a chunk, a
\* saved file, the three session lines and a citation block
C26_Witness ==
    /\ TextSucceeded
    /\ { out[i].kind : i \in 1..Len(out) } =
           {"header", "uploaded", "chunk", "generated", "saved", "session",
            "contentType", "memory", "citations"}

\* ------------------------------------------------------------------------
\* Further properties of HandleFileOutput
\* ------------------------------------------------------------------------
\* the bytes of the file saved by the k-th write of the call
BytesWritten(k) == hfoFiles[written[k].index].Bytes

\* C28: for any list of generated files and any prior contents of the output
\* directory, HandleFileOutput never overwrites a file: every write goes to a
\* path that did not exist immediately before that write, so the saved paths
\* are pairwise distinct and every file written earlier in the same call still
\* holds its own bytes when the call returns.
C28_NeverOverwrites ==
    /\ \A k \in 1..Len(written) :
           written[k].result = "ok" => ~written[k].existed
    /\ \A i, j \in 1..Len(savedFiles) : i # j => savedFiles[i] # savedFiles[j]
    /\ pc \in {"hfo_ret", "done"} =>
           \A k \in 1..Len(written) :
               written[k].result = "ok" => disk[written[k].path] = BytesWritten(k)

\* ------------------------------------------------------------------------
\* The citations of the structured document and of the plain-text block
\* ------------------------------------------------------------------------
\* the number of references listed by an entry of the structured array
ReferencesListed(info) ==
    IF "references" \in DOMAIN info THEN Len(info["references"].v) ELSE 0

\* the shape of the plain-text block for a citation list: the number of
\* "Ref" items of each numbered entry
TextShape(cits) ==
    LET block == writeCitationsTextOutput(cits)
    IN  IF block = <<>> THEN <<>>
        ELSE [i \in 1..Len(block[1].data) |-> Len(block[1].data[i].refs)]

\* the shape of the structured array for a citation list
JSONShape(cits) ==
    LET arr == formatCitationsForJSON(cits)
    IN  IF arr.null THEN <<>>
        ELSE [i \in 1..Len(arr.v) |-> ReferencesListed(arr.v[i])]

\* C29: the structured citations array has the same shape as the plain-text
\* citation block: exactly one entry per citation of the reduced citation
\* list, in the same order, and each entry lists exactly one reference per
\* retrieved reference of that citation.
C29_CitationsSameShape ==
    \A i \in 1..Len(out) :
        (out[i].kind = "json" /\ "citations" \in DOMAIN out[i].data) =>
            LET arr == out[i].data["citations"].v
            IN  /\ Len(arr) = Len(streamRet.citations)
                /\ \A k \in 1..Len(arr) :
                       ReferencesListed(arr[k]) =
                           Len(streamRet.citations[k].RetrievedReferences)
                /\ JSONShape(streamRet.citations) = TextShape(streamRet.citations)

\* ------------------------------------------------------------------------
\* The output file of a run that fails
\* ------------------------------------------------------------------------
\* the run failed before any response was received: the assembly of the
\* input files failed, or InvokeAgent was called and gave no response
FailedBeforeResponse ==
    /\ caller = "run"
    /\ retErr # NoError
    /\ output = NoOutput
    /\ pifRet.err # NoError \/ invoked > 0

\* the file at the --output-file path holds what it held before the run
OutputFileUntouched ==
    \A p \in DOMAIN run.prior :
        p = Clean(options.OutputFile) => p \in DOMAIN disk /\ disk[p] = run.prior[p]

\* C30: if a run fails before any response is received (input-file assembly
\* fails, e.g. on the 10 MiB limit, or the InvokeAgent call returns an error),
\* an already existing file at the --output-file path is left unmodified.
C30_FailedRunKeepsOutputFile == FailedBeforeResponse => OutputFileUntouched

\* ------------------------------------------------------------------------
\* The media type of the input files
\* ------------------------------------------------------------------------
\* the table of extensions
ExtensionTable ==
    [e \in { <<".", "c", "s", "v">>, <<".", "j", "s", "o", "n">>, <<".", "t", "x", "t">>,
             <<".", "p", "d", "f">>, <<".", "x", "l", "s", "x">>, <<".", "x", "l", "s">>,
             <<".", "d", "o", "c", "x">>, <<".", "d", "o", "c">>,
             <<".", "p", "p", "t", "x">>, <<".", "p", "p", "t">> } |->
        CASE e = <<".", "c", "s", "v">> -> <<"text/", "csv">>
          [] e = <<".", "j", "s", "o", "n">> -> <<"application/", "json">>
          [] e = <<".", "t", "x", "t">> -> <<"text/", "plain">>
          [] e = <<".", "p", "d", "f">> -> <<"application/", "pdf">>
          [] e[2] = "x" ->
                 <<"application/", "vnd.openxmlformats-officedocument.spreadsheetml.sheet">>
          [] e[2] = "d" ->
                 <<"application/", "vnd.openxmlformats-officedocument.wordprocessingml.document">>
          [] e[2] = "p" ->
                 <<"application/", "vnd.openxmlformats-officedocument.presentationml.presentation">>]

\* the media type given to the k-th input file, what sniffing its content
\* gives and its lower-cased extension
MediaTypeOf(k) == inputFiles[k].MediaType
SniffedOf(k) == DetectContentType(uploads[inputFiles[k].path].content)
LowerExtOf(k) == ToLower(Ext(uploads[inputFiles[k].path].name))

\* C27: DetectMimeType is a pure function of (path, content): the result is
\* the content-sniffed type, except that (a) when the sniffed type is the
\* generic application/octet-stream the lower-cased extension selects the type
\* from the table, keeping the generic type for any other extension, and (b) a
\* sniffed text/* type with a ';' parameter is returned with the parameter
\* stripped; the table is never consulted for a non-generic sniffed type.
C27_DetectMimeType ==
    caller = "upload" =>
        /\ \A k \in 1..Len(inputFiles) :
               LET s == SniffedOf(k)
                   e == LowerExtOf(k)
                   m == MediaTypeOf(k)
               IN  /\ (s = OctetStream /\ e \in DOMAIN ExtensionTable) => m = ExtensionTable[e]
                   /\ (s = OctetStream /\ e \notin DOMAIN ExtensionTable) => m = OctetStream
                   /\ (s # OctetStream /\ s[1] = "text/" /\ Len(s) = 4) =>
                          m = <<s[1], s[2]>> /\ s[3] = ";"
                   /\ (s # OctetStream /\ ~(s[1] = "text/" /\ Len(s) = 4)) => m = s
        /\ \A j, k \in 1..Len(inputFiles) :
               ( /\ uploads[inputFiles[j].path].name = uploads[inputFiles[k].path].name
                 /\ uploads[inputFiles[j].path].content = uploads[inputFiles[k].path].content )
               => MediaTypeOf(j) = MediaTypeOf(k)

\* PrepareInputFiles returned the files whose media types are s
ClassifiedAs(s) ==
    /\ caller = "upload"
    /\ pc = "done"
    /\ pifRet.err = NoError
    /\ [k \in 1..Len(pifRet.files) |-> pifRet.files[k].MediaType] = s

\* a binary file a.CSV was classified by its extension, twice in one list
C27_Witness ==
    /\ ClassifiedAs(<< <<"text/", "csv">>, <<"text/", "csv">> >>)
    /\ \A k \in 1..2 : uploads[k] = TypedUpload(<<"a", ".", "C", "S", "V">>, <<BinaryByte>>)

\* ------------------------------------------------------------------------
\* The input text built from a prompt template
\* ------------------------------------------------------------------------
\* the prompt named by the options, as it is stored
StoredPrompt == LoadPrompt(options.PromptName, options.PromptFile, disk)

\* every --var value has the form key=value
WellFormedVars == \A i \in 1..Len(options.PromptVars) : Len(SplitVar(options.PromptVars[i])) = 2

\* the template with its variables substituted and {{input}} left in place
SubstituteVariables(t, pvars) == IF pvars = <<>> THEN t ELSE Execute(t, VarMap(pvars))

\* processPrompt is called with a readable prompt, a non-empty --input text
\* and well-formed variables
CallsProcessPrompt ==
    /\ caller = "prompt"
    /\ pc = "prompt"
    /\ pc' = "done"
    /\ StoredPrompt.err = NoError
    /\ options.InputText # <<>>
    /\ WellFormedVars

\* C21: for any prompt template that contains the {{input}} placeholder and
\* any non-empty --input text, with or without --var variables, processPrompt
\* succeeds and the final input text is the (variable-substituted) template
\* with every occurrence of {{input}} replaced by the --input text; when the
\* template has no placeholder the --input text is appended after a newline.
C21_InputPlaceholderReplaced ==
    [][ CallsProcessPrompt =>
            IF HasInputPlaceholder(StoredPrompt.s)
            THEN /\ retErr' = NoError
                 /\ options'.InputText =
                        ReplaceAll(SubstituteVariables(StoredPrompt.s, options.PromptVars),
                                   options.InputText)
            ELSE retErr' = NoError =>
                     options'.InputText =
                         SubstituteVariables(StoredPrompt.s, options.PromptVars)
                         \o <<NewLine>> \o options.InputText ]_vars

====
